---- MODULE Spec2Model ----
(***************************************************************************)
(* A model of the timetable solver of src/csp_solver.py (TimetableSolver). *)
(* One behaviour is one solver object: Init is the state after __init__    *)
(* for some catalog, SolveBegin is the entry of solve (the two shuffles),  *)
(* and every later step is one call of assign_session from the driver      *)
(* loop, followed by the loop bookkeeping (or the return) that the code    *)
(* runs after it.                                                          *)
(*                                                                         *)
(* Catalog records keep the fields the solver reads: the display fields    *)
(* that are only copied (course name, start_time, end_time, department,    *)
(* capacity, semester) are left out.                                       *)
(*                                                                         *)
(* Further specifications over the same variables: RunsSpec (two runs of   *)
(* solve), SampleSpec (solve on the catalog of create_sample_data),        *)
(* FormatSpec (format_solution on lists of assignments), and the request   *)
(* handlers of src/app.py over the stored collections: CrudSpec (course    *)
(* requests) and GenSpec (timetable generation and delete requests).       *)
(* EditedSpec runs solve on catalogs in which update_course has blanked a  *)
(* course code, and ConcSpec serves two create-course requests at the same *)
(* time.                                                                   *)
(***************************************************************************)
EXTENDS Integers, Sequences, FiniteSets, TLC

(***************************************************************************)
(* Bounds of the catalogs that Init draws: sessions_per_week of a course   *)
(* and periods of a day.  The numbers of courses, teachers, rooms, groups  *)
(* and days are bounded by the lists of the catalog families below.        *)
(***************************************************************************)
MaxSessions == 3
MaxPeriods == 5
(* sessions that the courses of one catalog ask for, per group *)
MaxLoad == 4

(* the two thresholds of is_valid *)
CourseDayCap == 2
TeacherDayCap == 6

THEORY == "Theory"
LAB == "Lab"
RoomTypes == {THEORY, LAB}
None == "None"

DayNames == <<"Mon", "Tue">>
CourseCodes == <<"CS101", "CS102">>

(***************************************************************************)
(* Catalog families.  Identifiers (generate_id) are distinct and non-empty;*)
(* course codes are distinct and non-empty (the Course contract, and        *)
(* add_course rejects an empty or a duplicate code); names and room        *)
(* numbers are free text and may repeat                                    *)
(* (add_teacher, add_room and add_group store whatever they are given).    *)
(* The solver treats Theory and Lab alike, so the first room is a Theory   *)
(* room and the first of two courses a Theory course; solve shuffles       *)
(* courses and groups, so the catalog lists courses by non-decreasing      *)
(* sessions_per_week.  A catalog has namesakes in at most one of its       *)
(* collections, and a week of one day, or of two days that have 1 or       *)
(* MaxPeriods periods each.  The constructor takes any lists, so a catalog *)
(* may also have no timeslot, or some of its teacher, room and group       *)
(* collections empty.                                                      *)
(***************************************************************************)
TeacherCatalogs ==
    { <<[id |-> "t1", name |-> "Smith"]>>,
      <<[id |-> "t1", name |-> "Smith"], [id |-> "t2", name |-> "Jones"]>>,
      <<[id |-> "t1", name |-> "Smith"], [id |-> "t2", name |-> "Smith"]>> }

GroupCatalogs ==
    { <<[id |-> "g1", name |-> "CS-A"]>>,
      <<[id |-> "g1", name |-> "CS-A"], [id |-> "g2", name |-> "CS-B"]>>,
      <<[id |-> "g1", name |-> "CS-A"], [id |-> "g2", name |-> "CS-A"]>> }

RoomCatalogs ==
    { <<[id |-> "r1", room_number |-> "A101", room_type |-> THEORY]>>,
      <<[id |-> "r1", room_number |-> "A101", room_type |-> THEORY],
        [id |-> "r2", room_number |-> "A102", room_type |-> THEORY]>>,
      <<[id |-> "r1", room_number |-> "A101", room_type |-> THEORY],
        [id |-> "r2", room_number |-> "A101", room_type |-> THEORY]>>,
      <<[id |-> "r1", room_number |-> "A101", room_type |-> THEORY],
        [id |-> "r2", room_number |-> "Lab1", room_type |-> LAB]>> }

(* create_sample_data builds the timeslots day by day, periods ascending *)
TimeslotGrid(nd, np) ==
    [k \in 1..(nd * np) |->
        [day |-> DayNames[((k - 1) \div np) + 1], period |-> ((k - 1) % np) + 1]]

TimeslotCatalogs ==
    { TimeslotGrid(1, np) : np \in 0..MaxPeriods }
    \cup { TimeslotGrid(Len(DayNames), np) : np \in {1, MaxPeriods} }

Repeats(names) == \E i, j \in DOMAIN names : i # j /\ names[i] = names[j]
TeacherNames(ts) == [i \in DOMAIN ts |-> ts[i].name]
RoomNumbers(rs) == [i \in DOMAIN rs |-> rs[i].room_number]
GroupNames(gs) == [i \in DOMAIN gs |-> gs[i].name]

(* <<teachers, rooms, groups>> of one teacher, one room and one group, with
   some of the three collections left empty *)
SparseStaffCatalogs ==
    { <<IF 1 \in e THEN <<>> ELSE <<[id |-> "t1", name |-> "Smith"]>>,
        IF 2 \in e THEN <<>>
                   ELSE <<[id |-> "r1", room_number |-> "A101", room_type |-> THEORY]>>,
        IF 3 \in e THEN <<>> ELSE <<[id |-> "g1", name |-> "CS-A"]>>>> :
      e \in (SUBSET {1, 2, 3}) \ {{}} }

(* <<teachers, rooms, groups>> *)
StaffCatalogs ==
    { c \in TeacherCatalogs \X RoomCatalogs \X GroupCatalogs :
        /\ ~(Repeats(TeacherNames(c[1])) /\ Repeats(RoomNumbers(c[2])))
        /\ ~(Repeats(TeacherNames(c[1])) /\ Repeats(GroupNames(c[3])))
        /\ ~(Repeats(RoomNumbers(c[2])) /\ Repeats(GroupNames(c[3]))) }
    \cup SparseStaffCatalogs

CourseKinds == [sessions_per_week : 1..MaxSessions, course_type : RoomTypes]

RECURSIVE SumSessions(_, _)
SumSessions(f, n) ==
    IF n = 0 THEN 0 ELSE f[n].sessions_per_week + SumSessions(f, n - 1)

Load(f) == SumSessions(f, Len(f))

CourseCatalogs ==
    UNION { { [i \in 1..n |->
                 [code |-> CourseCodes[i],
                  sessions_per_week |-> ks[i].sessions_per_week,
                  course_type |-> ks[i].course_type]] :
              ks \in { f \in [1..n -> CourseKinds] :
                         /\ \A i \in 1..(n - 1) :
                               f[i].sessions_per_week <= f[i + 1].sessions_per_week
                         /\ n >= 2 => f[1].course_type = THEORY
                         /\ Load(f) <= MaxLoad } } :
            n \in 0..Len(CourseCodes) }

VARIABLES
    courses, teachers, rooms, timeslots, groups,   \* self.courses ... self.groups
    solution,                                      \* self.solution
    teacher_assignments,                           \* {teacher_id: [(day, period), ...]}
    room_assignments,                              \* {room_id: [(day, period), ...]}
    group_assignments,                             \* {group_id: [(day, period), ...]}
    course_teacher_map,                            \* {course_code: teacher_id}
    course_day_sessions,                           \* {(course_code, group_id, day): count}
    pc,                                            \* position of solve
    shuffled_courses, shuffled_groups,             \* the locals courses, groups of solve
    ci, gi, session,                               \* the three loop positions of solve
    returned,                                      \* what solve returned
    update_calls,                                  \* arguments of every _update_assignments call
    draws,                                         \* the shuffles this call of solve has drawn
    earlier,                                       \* end of the run before this one
    mode,                                          \* "first", "fresh" or "reused" solver
    stored,                                        \* data/courses.json ... data/groups.json
    timetable,                                     \* data/timetable.json
    response,                                      \* what the last request or call returned
                                                   \* (ConcSpec: what each request returned)
    handler,                                       \* position of the request handler
                                                   \* (ConcSpec: the frame of each request)
    issued                                         \* calls of generate_id for a course so far

catalog == <<courses, teachers, rooms, timeslots, groups>>
tracker == <<teacher_assignments, room_assignments, group_assignments,
             course_teacher_map, course_day_sessions>>
driver == <<pc, shuffled_courses, shuffled_groups, ci, gi, session, returned>>
runs == <<draws, earlier, mode>>
web == <<stored, timetable, response, handler, issued>>
vars == <<catalog, solution, tracker, driver, update_calls, runs, web>>

EmptyDict == [k \in {} |-> 0]

(* dict.get(key, default) *)
Get(d, k, default) == IF k \in DOMAIN d THEN d[k] ELSE default

(* d[k] = v *)
Put(d, k, v) == [x \in DOMAIN d \cup {k} |-> IF x = k THEN v ELSE d[x]]

(* Python truthiness of the strings used as ids and codes *)
Truthy(x) == x # None /\ x # ""

Range(s) == { s[i] : i \in DOMAIN s }

Abs(x) == IF x < 0 THEN -x ELSE x

(* random.shuffle(list): every ordering of the list *)
Shuffles(s) ==
    { [i \in 1..Len(s) |-> s[p[i]]] : p \in Permutations(1..Len(s)) }

(* no request has been made: the solver is used on its own *)
NoResponse == [status |-> 0]
NoStore == [courses |-> <<>>, teachers |-> <<>>, rooms |-> <<>>, timeslots |-> <<>>,
            groups |-> <<>>]

WebUnused ==
    /\ stored = NoStore
    /\ timetable = <<>>
    /\ response = NoResponse
    /\ handler = "none"
    /\ issued = 0

Init ==
    /\ WebUnused
    /\ courses \in CourseCatalogs
    /\ \E c \in StaffCatalogs : teachers = c[1] /\ rooms = c[2] /\ groups = c[3]
    /\ timeslots \in TimeslotCatalogs
    /\ solution = <<>>
    /\ teacher_assignments = EmptyDict
    /\ room_assignments = EmptyDict
    /\ group_assignments = EmptyDict
    /\ course_teacher_map = EmptyDict
    /\ course_day_sessions = EmptyDict
    /\ pc = "init"
    /\ shuffled_courses = <<>>
    /\ shuffled_groups = <<>>
    /\ ci = 0 /\ gi = 0 /\ session = 0
    /\ returned = None
    /\ update_calls = <<>>
    /\ draws = <<>>
    /\ earlier = [pc |-> "init", solution |-> <<>>, draws |-> <<>>]
    /\ mode = "first"


(***************************************************************************)
(* is_valid: the seven checks, in the order of the code.                   *)
(***************************************************************************)
Slot(timeslot) == <<timeslot.day, timeslot.period>>

(* Constraint 1 left out *)
TeacherConflictUnchecked(teacher, timeslot) == FALSE

(* Constraint 1: the teacher id already holds (day, period) *)
TeacherConflict(teacher, timeslot) ==
    /\ teacher.id \in DOMAIN teacher_assignments
    /\ Slot(timeslot) \in Range(teacher_assignments[teacher.id])

(* Constraint 2 left out *)
RoomConflictUnchecked(room, timeslot) == FALSE

(* Constraint 2: the room id already holds (day, period) *)
RoomConflict(room, timeslot) ==
    /\ room.id \in DOMAIN room_assignments
    /\ Slot(timeslot) \in Range(room_assignments[room.id])

(* Constraint 3 left out *)
GroupConflictUnchecked(group, timeslot) == FALSE

(* Constraint 3: the group id already holds (day, period) *)
GroupConflict(group, timeslot) ==
    /\ group.id \in DOMAIN group_assignments
    /\ Slot(timeslot) \in Range(group_assignments[group.id])

(* Constraint 4 with == for != *)
TypeMismatchInverted(course, room) == course.course_type = room.room_type

(* Constraint 4 *)
TypeMismatch(course, room) == course.course_type # room.room_type

(* Constraint 5 left out *)
AdjacencyUnchecked(course, timeslot, group) == FALSE

(* Constraint 5: an assignment of the solution with the same group name, day
   and course code sits at a period exactly 1 away *)
AdjacencyViolation(course, timeslot, group) ==
    \E n \in DOMAIN solution :
        /\ solution[n].group_name = group.name
        /\ solution[n].day = timeslot.day
        /\ solution[n].course_code = course.code
        /\ Abs(solution[n].period - timeslot.period) = 1

(* Constraint 6 with > for >= *)
DailyCourseCapLoose(course, timeslot, group) ==
    Get(course_day_sessions, <<course.code, group.id, timeslot.day>>, 0) > CourseDayCap

(* Constraint 6: the (course_code, group_id, day) counter *)
DailyCourseCap(course, timeslot, group) ==
    Get(course_day_sessions, <<course.code, group.id, timeslot.day>>, 0) >= CourseDayCap

(* Constraint 7: assignments of the solution with this teacher name on this day *)
TeacherSessionsToday(teacher, timeslot) ==
    { n \in DOMAIN solution :
        solution[n].teacher_name = teacher.name /\ solution[n].day = timeslot.day }

DailyTeacherCap(teacher, timeslot) ==
    Cardinality(TeacherSessionsToday(teacher, timeslot)) >= TeacherDayCap

is_valid(course, teacher, room, timeslot, group) ==
    /\ ~TeacherConflict(teacher, timeslot)
    /\ ~RoomConflict(room, timeslot)
    /\ ~GroupConflict(group, timeslot)
    /\ ~TypeMismatch(course, room)
    /\ ~AdjacencyViolation(course, timeslot, group)
    /\ ~DailyCourseCap(course, timeslot, group)
    /\ ~DailyTeacherCap(teacher, timeslot)

get_rooms_for_course(course, rs) ==
    SelectSeq(rs, LAMBDA room : room.room_type = course.course_type)

(* room_type copied from the head of the room list instead of the chosen room *)
AssignmentOfFirstRoom(course, teacher, room, timeslot, group) ==
    [course_code |-> course.code,
     teacher_name |-> teacher.name,
     room_number |-> room.room_number,
     day |-> timeslot.day,
     period |-> timeslot.period,
     group_name |-> group.name,
     course_type |-> course.course_type,
     room_type |-> rooms[1].room_type]

(* the assignment dictionary built at lines 128-140 and 160-172 *)
Assignment(course, teacher, room, timeslot, group) ==
    [course_code |-> course.code,
     teacher_name |-> teacher.name,
     room_number |-> room.room_number,
     day |-> timeslot.day,
     period |-> timeslot.period,
     group_name |-> group.name,
     course_type |-> course.course_type,
     room_type |-> room.room_type]

(***************************************************************************)
(* The nested loops of assign_session over teacher x room x timeslot:      *)
(* the first triple, in that nested order, that is_valid accepts.  A       *)
(* triple is numbered by its place in the nested order.  (CHOOSE x \in {e} *)
(* names the value of e, so that e is computed once.)                      *)
(***************************************************************************)
Min(S) == CHOOSE x \in S : \A y \in S : x <= y

(* the loops over room and timeslot exchanged: for timeslot ... for room *)
FirstFitTimeslotMajor(tseq, course, group) ==
    LET valid_rooms == get_rooms_for_course(course, rooms)
        nr == Len(valid_rooms)
        nt == Len(timeslots)
        TeacherOf(k) == tseq[((k - 1) \div (nr * nt)) + 1]
        RoomOf(k) == valid_rooms[((k - 1) % nr) + 1]
        TimeslotOf(k) == timeslots[(((k - 1) \div nr) % nt) + 1]
        Accepts(k) == is_valid(course, TeacherOf(k), RoomOf(k), TimeslotOf(k), group)
        triples == 1..(Len(tseq) * nr * nt)
        first == IF \E k \in triples : Accepts(k)
                 THEN CHOOSE k \in triples : Accepts(k) /\ \A j \in 1..(k - 1) : ~Accepts(j)
                 ELSE 0
        Fit(k) == [found |-> TRUE, teacher |-> TeacherOf(k), room |-> RoomOf(k),
                   timeslot |-> TimeslotOf(k)]
    IN  CHOOSE fit \in { IF k = 0 THEN [found |-> FALSE] ELSE Fit(k) : k \in {first} } : TRUE

FirstFit(tseq, course, group) ==
    LET valid_rooms == get_rooms_for_course(course, rooms)
        nr == Len(valid_rooms)
        nt == Len(timeslots)
        TeacherOf(k) == tseq[((k - 1) \div (nr * nt)) + 1]
        RoomOf(k) == valid_rooms[(((k - 1) \div nt) % nr) + 1]
        TimeslotOf(k) == timeslots[((k - 1) % nt) + 1]
        Accepts(k) == is_valid(course, TeacherOf(k), RoomOf(k), TimeslotOf(k), group)
        triples == 1..(Len(tseq) * nr * nt)
        first == IF \E k \in triples : Accepts(k)
                 THEN CHOOSE k \in triples : Accepts(k) /\ \A j \in 1..(k - 1) : ~Accepts(j)
                 ELSE 0
        Fit(k) == [found |-> TRUE, teacher |-> TeacherOf(k), room |-> RoomOf(k),
                   timeslot |-> TimeslotOf(k)]
    IN  CHOOSE fit \in { IF k = 0 THEN [found |-> FALSE] ELSE Fit(k) : k \in {first} } : TRUE

(* teachers.sort(key=lambda t: 0 if t['id'] == preferred_teacher_id else 1), a stable sort *)
PreferredFirst(tseq, preferred_teacher_id) ==
    SelectSeq(tseq, LAMBDA t : t.id = preferred_teacher_id)
        \o SelectSeq(tseq, LAMBDA t : t.id # preferred_teacher_id)

(* the first loop without the skip of line 112 and without the sort *)
Pass1TeachersUnrestricted(preferred_teacher_id, shuffled) == shuffled

(* the teachers that the first loop does not skip (line 112) *)
Pass1Teachers(preferred_teacher_id, shuffled) ==
    IF Truthy(preferred_teacher_id)
    THEN SelectSeq(PreferredFirst(teachers, preferred_teacher_id),
                   LAMBDA t : t.id = preferred_teacher_id)
    ELSE shuffled

(* assign_session without the second loop of lines 153-177 *)
assign_sessionFirstLoopOnly(course, group, shuffled) ==
    LET preferred_teacher_id == Get(course_teacher_map, course.code, None)
    IN  CHOOSE r \in
            { IF first.found
              THEN [ok |-> TRUE, pass |-> 1, teacher |-> first.teacher,
                    room |-> first.room, timeslot |-> first.timeslot]
              ELSE [ok |-> FALSE] :
              first \in {FirstFit(Pass1Teachers(preferred_teacher_id, shuffled),
                                  course, group)} } : TRUE

(***************************************************************************)
(* assign_session(course, group): what it commits, if anything.  A call    *)
(* draws one shuffle of the teachers: at line 107 when the course has no   *)
(* preferred teacher, at line 154 when it has one and the first loop       *)
(* placed nothing.  pass is 1 for a placement by the first loop (lines     *)
(* 109-150) and 2 for one by the second (lines 153-177).                   *)
(***************************************************************************)
assign_session(course, group, shuffled) ==
    LET preferred_teacher_id == Get(course_teacher_map, course.code, None)
        Commit(fit, pass) ==
            [ok |-> TRUE, pass |-> pass, teacher |-> fit.teacher, room |-> fit.room,
             timeslot |-> fit.timeslot]
        SecondLoop ==
            CHOOSE r \in { IF second.found THEN Commit(second, 2) ELSE [ok |-> FALSE] :
                             second \in {FirstFit(shuffled, course, group)} } : TRUE
    IN  CHOOSE r \in
            { IF first.found
              THEN Commit(first, 1)
              ELSE IF Truthy(preferred_teacher_id) THEN SecondLoop ELSE [ok |-> FALSE] :
              first \in {FirstFit(Pass1Teachers(preferred_teacher_id, shuffled),
                                  course, group)} } : TRUE

(* the list of the key replaced by the new entry instead of appended to *)
AppendToReplacing(d, k, v) == Put(d, k, <<v>>)

(* list.setdefault-and-append of _update_assignments *)
AppendTo(d, k, v) == Put(d, k, Append(Get(d, k, <<>>), v))

update_assignments(teacher_id, room_id, group_id, day, period, course_code, group_id_for_course) ==
    /\ teacher_assignments' = AppendTo(teacher_assignments, teacher_id, <<day, period>>)
    /\ room_assignments' = AppendTo(room_assignments, room_id, <<day, period>>)
    /\ group_assignments' = AppendTo(group_assignments, group_id, <<day, period>>)
    /\ course_day_sessions' =
          IF Truthy(course_code) /\ Truthy(group_id_for_course)
          THEN LET course_day_key == <<course_code, group_id_for_course, day>>
               IN  Put(course_day_sessions, course_day_key,
                       Get(course_day_sessions, course_day_key, 0) + 1)
          ELSE course_day_sessions

(* the entry written on every placement, second loop included *)
RecordTeacherAlways(course, r) == Put(course_teacher_map, course.code, r.teacher.id)

(* line 124-125: recorded on a first-loop placement when the course has no entry *)
RecordTeacher(course, r) ==
    IF r.pass = 1 /\ course.code \notin DOMAIN course_teacher_map
    THEN Put(course_teacher_map, course.code, r.teacher.id)
    ELSE course_teacher_map

(***************************************************************************)
(* solve                                                                   *)
(***************************************************************************)
(* solve refusing an empty course list: None for no courses *)
SolveBeginRejectsEmpty ==
    /\ pc = "init"
    /\ \E cs \in Shuffles(courses), gs \in Shuffles(groups) :
          /\ shuffled_courses' = cs
          /\ shuffled_groups' = gs
          /\ IF Len(cs) = 0
             THEN pc' = "failed" /\ returned' = None /\ ci' = 0 /\ gi' = 0
             ELSE IF Len(gs) = 0
             THEN pc' = "success" /\ returned' = solution /\ ci' = 0 /\ gi' = 0
             ELSE pc' = "scheduling" /\ returned' = returned /\ ci' = 1 /\ gi' = 1
    /\ session' = 0
    /\ UNCHANGED <<catalog, solution, tracker, update_calls, runs, web>>

(* lines 54-57 without the two copies: random.shuffle on self.courses and
   self.groups themselves *)
SolveBeginShufflesInPlace ==
    /\ pc = "init"
    /\ \E cs \in Shuffles(courses), gs \in Shuffles(groups) :
          /\ shuffled_courses' = cs
          /\ shuffled_groups' = gs
          /\ courses' = cs
          /\ groups' = gs
          /\ IF Len(cs) = 0 \/ Len(gs) = 0
             THEN pc' = "success" /\ returned' = solution /\ ci' = 0 /\ gi' = 0
             ELSE pc' = "scheduling" /\ returned' = returned /\ ci' = 1 /\ gi' = 1
    /\ session' = 0
    /\ UNCHANGED <<teachers, rooms, timeslots, solution, tracker, update_calls, runs, web>>

(* lines 54-57 with the two shuffles drawn as cs and gs, and lines 59-82
   when there is no course or no group to loop over: solve returns
   self.solution without a call of assign_session *)
Begin(cs, gs) ==
    /\ pc = "init"
    /\ shuffled_courses' = cs
    /\ shuffled_groups' = gs
    /\ IF Len(cs) = 0 \/ Len(gs) = 0
       THEN pc' = "success" /\ returned' = solution /\ ci' = 0 /\ gi' = 0
       ELSE pc' = "scheduling" /\ returned' = returned /\ ci' = 1 /\ gi' = 1
    /\ session' = 0
    /\ UNCHANGED <<catalog, solution, tracker, update_calls, web>>

SolveBegin ==
    \E cs \in Shuffles(courses), gs \in Shuffles(groups) :
        Begin(cs, gs) /\ UNCHANGED runs

(* the session loop one iteration short: range(sessions_needed - 1) *)
AdvanceShort ==
    LET course == shuffled_courses[ci]
    IN  IF session + 2 < course.sessions_per_week
        THEN /\ session' = session + 1
             /\ UNCHANGED <<ci, gi, pc, returned>>
        ELSE IF gi < Len(shuffled_groups)
        THEN /\ session' = 0 /\ gi' = gi + 1
             /\ UNCHANGED <<ci, pc, returned>>
        ELSE IF ci < Len(shuffled_courses)
        THEN /\ session' = 0 /\ gi' = 1 /\ ci' = ci + 1
             /\ UNCHANGED <<pc, returned>>
        ELSE /\ pc' = "success" /\ returned' = solution'
             /\ UNCHANGED <<ci, gi, session>>

(* the loop bookkeeping after a placed session: next session, next group,
   next course, or the return of self.solution *)
Advance ==
    LET course == shuffled_courses[ci]
    IN  IF session + 1 < course.sessions_per_week
        THEN /\ session' = session + 1
             /\ UNCHANGED <<ci, gi, pc, returned>>
        ELSE IF gi < Len(shuffled_groups)
        THEN /\ session' = 0 /\ gi' = gi + 1
             /\ UNCHANGED <<ci, pc, returned>>
        ELSE IF ci < Len(shuffled_courses)
        THEN /\ session' = 0 /\ gi' = 1 /\ ci' = ci + 1
             /\ UNCHANGED <<pc, returned>>
        ELSE /\ pc' = "success" /\ returned' = solution'
             /\ UNCHANGED <<ci, gi, session>>

(* line 74 with assign_session returning True, the teachers shuffled as
   shuffled if the call shuffles them, and lines 78-82 *)
Place(shuffled) ==
    /\ pc = "scheduling"
    /\ \E course \in {shuffled_courses[ci]}, group \in {shuffled_groups[gi]} :
         \E r \in {assign_session(course, group, shuffled)} :
           /\ r.ok
           /\ course_teacher_map' = RecordTeacher(course, r)
           /\ solution' = Append(solution,
                                 Assignment(course, r.teacher, r.room, r.timeslot, group))
           /\ update_assignments(r.teacher.id, r.room.id, group.id,
                                 r.timeslot.day, r.timeslot.period,
                                 course.code, group.id)
           /\ update_calls' = Append(update_calls,
                  [teacher_id |-> r.teacher.id, room_id |-> r.room.id,
                   group_id |-> group.id, day |-> r.timeslot.day,
                   period |-> r.timeslot.period, course_code |-> course.code])
    /\ Advance
    /\ UNCHANGED <<catalog, shuffled_courses, shuffled_groups, web>>

SessionPlaced ==
    \E shuffled \in Shuffles(teachers) : Place(shuffled) /\ UNCHANGED runs

(* the driver calling assign_session again after a failed call *)
SessionFailedRetries ==
    /\ pc = "scheduling"
    /\ \E shuffled \in Shuffles(teachers) :
         ~assign_session(shuffled_courses[ci], shuffled_groups[gi], shuffled).ok
    /\ UNCHANGED vars

(* solve returning self.solution where line 76 returns None *)
SessionFailedReturnsSolution ==
    /\ pc = "scheduling"
    /\ \E shuffled \in Shuffles(teachers) :
         ~assign_session(shuffled_courses[ci], shuffled_groups[gi], shuffled).ok
    /\ pc' = "success"
    /\ returned' = solution
    /\ UNCHANGED <<catalog, solution, tracker, update_calls, runs, web,
                   shuffled_courses, shuffled_groups, ci, gi, session>>

(* line 76 as `continue`: after a failed call the driver goes on to the next
   session *)
SessionFailedSkips ==
    /\ pc = "scheduling"
    /\ \E shuffled \in Shuffles(teachers) :
         ~assign_session(shuffled_courses[ci], shuffled_groups[gi], shuffled).ok
    /\ UNCHANGED <<catalog, solution, tracker, update_calls, runs, web,
                   shuffled_courses, shuffled_groups>>
    /\ Advance

(* lines 124-125 moved ahead of the is_valid test: a call that places nothing
   still records the first teacher it tried *)
FailRecordingTeacher(shuffled) ==
    /\ pc = "scheduling"
    /\ ~assign_session(shuffled_courses[ci], shuffled_groups[gi], shuffled).ok
    /\ pc' = "failed"
    /\ returned' = None
    /\ course_teacher_map' =
          IF shuffled_courses[ci].code \notin DOMAIN course_teacher_map /\ Len(shuffled) > 0
          THEN Put(course_teacher_map, shuffled_courses[ci].code, shuffled[1].id)
          ELSE course_teacher_map
    /\ UNCHANGED <<catalog, solution, teacher_assignments, room_assignments,
                   group_assignments, course_day_sessions, update_calls, web,
                   shuffled_courses, shuffled_groups, ci, gi, session>>

(* line 74-76: assign_session returned False, the teachers shuffled as
   shuffled, and solve returns None *)
Fail(shuffled) ==
    /\ pc = "scheduling"
    /\ ~assign_session(shuffled_courses[ci], shuffled_groups[gi], shuffled).ok
    /\ pc' = "failed"
    /\ returned' = None
    /\ UNCHANGED <<catalog, solution, tracker, update_calls, web,
                   shuffled_courses, shuffled_groups, ci, gi, session>>

SessionFailed ==
    \E shuffled \in Shuffles(teachers) : Fail(shuffled) /\ UNCHANGED runs

Next == SolveBegin \/ SessionPlaced \/ SessionFailed

Spec == Init /\ [][Next]_vars

(* solve is one sequential call: it keeps executing until it returns *)
FairSpec == Spec /\ WF_vars(Next)

(***************************************************************************)
(* Two runs over one catalog.  The steps of solve are those of Spec, with  *)
(* every shuffle they draw recorded in draws.  When the run has ended, a   *)
(* second run starts, on a new solver for the same catalog (Construct, as  *)
(* generate_timetable does for every request) or on the same solver        *)
(* (SolveAgain); earlier keeps how the first run ended.  The second run    *)
(* has the random source seeded as the first: its k-th draw is the k-th    *)
(* draw of the first run, as far as that run drew.                         *)
(***************************************************************************)
Seeded(ds) ==
    \A i \in DOMAIN ds :
        mode # "first" /\ Len(draws) + i <= Len(earlier.draws)
            => ds[i] = earlier.draws[Len(draws) + i]

(* whether the next call of assign_session shuffles the teachers: at line
   107 without a preferred teacher, at line 154 when the first loop over the
   preferred teacher places nothing *)
DrawsShuffle ==
    LET course == shuffled_courses[ci]
        group == shuffled_groups[gi]
        preferred_teacher_id == Get(course_teacher_map, course.code, None)
    IN  \/ ~Truthy(preferred_teacher_id)
        \/ ~FirstFit(Pass1Teachers(preferred_teacher_id, teachers), course, group).found

(* the groups ordered by something else than the seeded source *)
SolveBeginDrawnUnseededGroups ==
    \E cs \in Shuffles(courses), gs \in Shuffles(groups) :
        /\ Seeded(<<cs>>)
        /\ Begin(cs, gs)
        /\ draws' = draws \o <<cs, gs>>
        /\ UNCHANGED <<earlier, mode>>

SolveBeginDrawn ==
    \E cs \in Shuffles(courses), gs \in Shuffles(groups) :
        /\ Seeded(<<cs, gs>>)
        /\ Begin(cs, gs)
        /\ draws' = draws \o <<cs, gs>>
        /\ UNCHANGED <<earlier, mode>>

SessionPlacedDrawn ==
    /\ pc = "scheduling"
    /\ IF DrawsShuffle
       THEN \E shuffled \in Shuffles(teachers) :
               /\ Seeded(<<shuffled>>)
               /\ Place(shuffled)
               /\ draws' = Append(draws, shuffled)
       ELSE Place(teachers) /\ draws' = draws
    /\ UNCHANGED <<earlier, mode>>

SessionFailedDrawn ==
    /\ \E shuffled \in Shuffles(teachers) :
          /\ Seeded(<<shuffled>>)
          /\ Fail(shuffled)
          /\ draws' = Append(draws, shuffled)
    /\ UNCHANGED <<earlier, mode>>

(* TimetableSolver(courses, teachers, rooms, timeslots, groups) for the same
   catalog, after the first run: __init__, lines 24-42 *)
Construct ==
    /\ pc \in {"success", "failed"}
    /\ mode = "first"
    /\ earlier' = [pc |-> pc, solution |-> solution, draws |-> draws]
    /\ mode' = "fresh"
    /\ draws' = <<>>
    /\ solution' = <<>>
    /\ teacher_assignments' = EmptyDict
    /\ room_assignments' = EmptyDict
    /\ group_assignments' = EmptyDict
    /\ course_teacher_map' = EmptyDict
    /\ course_day_sessions' = EmptyDict
    /\ pc' = "init"
    /\ shuffled_courses' = <<>>
    /\ shuffled_groups' = <<>>
    /\ ci' = 0 /\ gi' = 0 /\ session' = 0
    /\ returned' = None
    /\ update_calls' = <<>>
    /\ UNCHANGED <<catalog, web>>

(* solve() called once more on the solver of the first run: nothing between
   line 44 and line 54 touches self.solution or the tracking dictionaries *)
SolveAgain ==
    /\ pc \in {"success", "failed"}
    /\ mode = "first"
    /\ earlier' = [pc |-> pc, solution |-> solution, draws |-> draws]
    /\ mode' = "reused"
    /\ draws' = <<>>
    /\ pc' = "init"
    /\ shuffled_courses' = <<>>
    /\ shuffled_groups' = <<>>
    /\ ci' = 0 /\ gi' = 0 /\ session' = 0
    /\ returned' = None
    /\ UNCHANGED <<catalog, solution, tracker, update_calls, web>>

RunsNext ==
    SolveBeginDrawn \/ SessionPlacedDrawn \/ SessionFailedDrawn \/ Construct \/ SolveAgain

(* the catalogs without namesakes *)
RunsInit ==
    /\ Init
    /\ ~Repeats(TeacherNames(teachers))
    /\ ~Repeats(RoomNumbers(rooms))
    /\ ~Repeats(GroupNames(groups))

RunsSpec == RunsInit /\ [][RunsNext]_vars


(***************************************************************************)
(* format_solution(solution).  A Python dict keeps its keys in insertion   *)
(* order: it is modelled as the sequence of its keys and the function from *)
(* a key to its value.  The result maps a day to a dict from a period to   *)
(* the list of the assignments of that day and period.                     *)
(***************************************************************************)
EmptyOrganized == [keys |-> <<>>, at |-> EmptyDict]

(* the bucket replaced instead of appended to *)
AddToBucketOverwrites(bucket, assignment) == <<assignment>>

(* line 321: organized[day][period].append(assignment) *)
AddToBucket(bucket, assignment) == Append(bucket, assignment)

(* lines 313-321 for one assignment *)
OrganizeOne(organized, assignment) ==
    LET day == assignment.day
        period == assignment.period
        of_day == IF day \in DOMAIN organized.at THEN organized.at[day] ELSE EmptyOrganized
        bucket == IF period \in DOMAIN of_day.at THEN of_day.at[period] ELSE <<>>
    IN  [keys |-> IF day \in DOMAIN organized.at
                  THEN organized.keys ELSE Append(organized.keys, day),
         at |-> Put(organized.at, day,
                    [keys |-> IF period \in DOMAIN of_day.at
                              THEN of_day.keys ELSE Append(of_day.keys, period),
                     at |-> Put(of_day.at, period, AddToBucket(bucket, assignment))])]

(* lines 311-321: the loop over the first n assignments *)
RECURSIVE Organize(_, _)
Organize(sol, n) ==
    IF n = 0 THEN EmptyOrganized ELSE OrganizeOne(Organize(sol, n - 1), sol[n])

(* sorted(...) of the periods of one day, ascending *)
RECURSIVE SortedPeriods(_)
SortedPeriods(S) ==
    IF S = {} THEN <<>> ELSE <<Min(S)>> \o SortedPeriods(S \ {Min(S)})

(* lines 307-327 *)
format_solution(sol) ==
    IF sol = <<>>
    THEN EmptyOrganized
    ELSE LET organized == Organize(sol, Len(sol))
         IN  [keys |-> organized.keys,
              at |-> [day \in DOMAIN organized.at |->
                        [keys |-> SortedPeriods(Range(organized.at[day].keys)),
                         at |-> organized.at[day].at]]]

(***************************************************************************)
(* format_solution called on lists of assignments: any list of at most     *)
(* MaxFormatLen assignments over two days, three periods and two courses,  *)
(* repeated assignments and periods out of order included.  The solver     *)
(* object holds no catalog.                                                *)
(***************************************************************************)
MaxFormatLen == 3

FormatAssignments ==
    { Assignment([code |-> code, course_type |-> THEORY],
                 [id |-> "t1", name |-> "Smith"],
                 [id |-> "r1", room_number |-> "A101", room_type |-> THEORY],
                 [day |-> day, period |-> period],
                 [id |-> "g1", name |-> "CS-A"]) :
        code \in Range(CourseCodes), day \in Range(DayNames), period \in {1, 2, 3} }

FormatInputs == UNION { [1..n -> FormatAssignments] : n \in 0..MaxFormatLen }

SolverUnused ==
    /\ courses = <<>> /\ teachers = <<>> /\ rooms = <<>>
    /\ timeslots = <<>> /\ groups = <<>>
    /\ teacher_assignments = EmptyDict
    /\ room_assignments = EmptyDict
    /\ group_assignments = EmptyDict
    /\ course_teacher_map = EmptyDict
    /\ course_day_sessions = EmptyDict
    /\ pc = "none"
    /\ shuffled_courses = <<>>
    /\ shuffled_groups = <<>>
    /\ ci = 0 /\ gi = 0 /\ session = 0
    /\ returned = None
    /\ update_calls = <<>>
    /\ draws = <<>>
    /\ earlier = [pc |-> "init", solution |-> <<>>, draws |-> <<>>]
    /\ mode = "first"

FormatInit ==
    /\ SolverUnused
    /\ WebUnused
    /\ solution \in FormatInputs

FormatCall ==
    /\ response = NoResponse
    /\ response' = [status |-> 0, formatted_solution |-> format_solution(solution)]
    /\ UNCHANGED <<catalog, solution, tracker, driver, update_calls, runs,
                   stored, timetable, handler, issued>>

FormatNext == FormatCall

FormatSpec == FormatInit /\ [][FormatNext]_vars

(***************************************************************************)
(* The course requests of src/app.py, one request at a time.  A request    *)
(* body is a dict: a function from the keys it carries to their values.    *)
(* The bodies of the model carry any of the four course fields, each with  *)
(* a value of its kind or the empty value of its kind ("" or 0); update    *)
(* bodies may also carry id.  An id is the number of the generate_id call  *)
(* that made it (generate_id: "Generate unique ID").  At most MaxCreated   *)
(* courses are created in one behaviour.                                   *)
(***************************************************************************)
MaxCreated == 2

CodeValues == {""} \cup Range(CourseCodes)
NameValues == {"", "Data Structures"}
SessionValues == {0, 1}
TypeValues == {"", THEORY}
IdValues == 1..MaxCreated

required_fields == <<"code", "name", "sessions_per_week", "course_type">>

Body(keys, id, code, name, sessions_per_week, course_type) ==
    [k \in keys |->
        CASE k = "id" -> id
          [] k = "code" -> code
          [] k = "name" -> name
          [] k = "sessions_per_week" -> sessions_per_week
          [] k = "course_type" -> course_type]

(* the values that Python takes for false, by field *)
EmptyValue ==
    [id |-> 0, code |-> "", name |-> "", sessions_per_week |-> 0, course_type |-> ""]

(* not data.get(field), with 0 taken for a value *)
AbsentField(data, field) == field \notin DOMAIN data

(* not data.get(field) *)
NotGiven(data, field) == field \notin DOMAIN data \/ data[field] = EmptyValue[field]

(* f'{field.replace("_", " ").title()} is required' *)
RequiredMessage ==
    [code |-> "Code is required", name |-> "Name is required",
     sessions_per_week |-> "Sessions Per Week is required",
     course_type |-> "Course Type is required"]

StoredIds == { stored.courses[i].id : i \in DOMAIN stored.courses }

SaveCourses(courses_) == [stored EXCEPT !.courses = courses_]

(* dict.update(data) *)
Updated(course, data) ==
    [k \in DOMAIN course \cup DOMAIN data |-> IF k \in DOMAIN data THEN data[k] ELSE course[k]]

(* POST /api/courses: add_course *)
add_course(data) ==
    /\ handler = "idle"
    /\ issued < MaxCreated
    /\ LET missing == { i \in DOMAIN required_fields : NotGiven(data, required_fields[i]) }
       IN  IF DOMAIN data = {}
           THEN /\ response' = [status |-> 400, success |-> FALSE,
                                message |-> "No data provided"]
                /\ UNCHANGED <<stored, issued>>
           ELSE IF missing # {}
           THEN /\ response' = [status |-> 400, success |-> FALSE,
                                message |-> RequiredMessage[required_fields[Min(missing)]]]
                /\ UNCHANGED <<stored, issued>>
           ELSE IF \E i \in DOMAIN stored.courses : stored.courses[i].code = data["code"]
           THEN /\ response' = [status |-> 400, success |-> FALSE,
                                message |-> "Course code already exists"]
                /\ UNCHANGED <<stored, issued>>
           ELSE LET course == [id |-> issued + 1, code |-> data["code"],
                               name |-> data["name"],
                               sessions_per_week |-> data["sessions_per_week"],
                               course_type |-> data["course_type"]]
                IN  /\ issued' = issued + 1
                    /\ stored' = SaveCourses(Append(stored.courses, course))
                    /\ response' = [status |-> 200, success |-> TRUE, course |-> course]
    /\ UNCHANGED <<catalog, solution, tracker, driver, update_calls, runs, timetable, handler>>

(* PUT /api/courses/<course_id>: update_course *)
update_course(course_id, data) ==
    /\ handler = "idle"
    /\ LET matches == { i \in DOMAIN stored.courses : stored.courses[i].id = course_id }
       IN  IF matches # {}
           THEN LET i == Min(matches)
                    course == Updated(stored.courses[i], data)
                IN  /\ stored' = SaveCourses([stored.courses EXCEPT ![i] = course])
                    /\ response' = [status |-> 200, success |-> TRUE, course |-> course]
           ELSE /\ response' = [status |-> 404, success |-> FALSE,
                                message |-> "Course not found"]
                /\ UNCHANGED stored
    /\ UNCHANGED <<catalog, solution, tracker, driver, update_calls, runs, timetable,
                   handler, issued>>

(* DELETE /api/courses/<course_id>: delete_course *)
delete_course(course_id) ==
    /\ handler = "idle"
    /\ stored' = SaveCourses(SelectSeq(stored.courses, LAMBDA course : course.id # course_id))
    /\ response' = [status |-> 200, success |-> TRUE]
    /\ UNCHANGED <<catalog, solution, tracker, driver, update_calls, runs, timetable,
                   handler, issued>>

(* GET /api/courses: get_courses *)
get_courses ==
    /\ handler = "idle"
    /\ response' = [status |-> 200, courses |-> stored.courses]
    /\ UNCHANGED <<catalog, solution, tracker, driver, update_calls, runs, stored,
                   timetable, handler, issued>>

AddCourse ==
    \E keys \in SUBSET Range(required_fields), code \in CodeValues, name \in NameValues,
       sessions_per_week \in SessionValues, course_type \in TypeValues :
        add_course(Body(keys, 0, code, name, sessions_per_week, course_type))

UpdateCourse ==
    \E course_id \in IdValues, keys \in SUBSET {"id", "code", "sessions_per_week"},
       id \in IdValues, code \in CodeValues, sessions_per_week \in SessionValues :
        update_course(course_id, Body(keys, id, code, "", sessions_per_week, ""))

DeleteCourse == \E course_id \in IdValues : delete_course(course_id)

GetCourses == get_courses

(* the application when the courses that create_sample_data stores at start-up
   have been deleted, and no course created yet *)
CrudInit ==
    /\ SolverUnused
    /\ solution = <<>>
    /\ stored = NoStore
    /\ timetable = <<>>
    /\ response = NoResponse
    /\ handler = "idle"
    /\ issued = 0

CrudNext == AddCourse \/ UpdateCourse \/ DeleteCourse \/ GetCourses

CrudSpec == CrudInit /\ [][CrudNext]_vars

(***************************************************************************)
(* The catalog of create_sample_data (src/utils.py): 5 courses that ask    *)
(* for 13 sessions, 4 teachers, 2 Theory and 2 Lab rooms, 5 days of 8      *)
(* periods, 3 groups.  SampleSpec runs solve on it, and on the same        *)
(* catalog with the timeslots of its first day only, on which solve fails. *)
(*                                                                         *)
(* The orderings that SampleSpec draws are one of every class of orderings *)
(* that the solver cannot tell apart:                                      *)
(*  - courses of the same type and sessions_per_week differ in their code  *)
(*    and name only, groups in their id and name only, and the solver      *)
(*    compares codes, ids and names for equality only; exchanging two such *)
(*    courses, or two groups, in the shuffled order gives the same run     *)
(*    with the codes or groups exchanged.  The like courses are drawn in   *)
(*    catalog order and the groups in catalog order.                       *)
(*  - a loop over the shuffled teachers commits to the first teacher of    *)
(*    the order that has an acceptable (room, timeslot), so the shuffles   *)
(*    that lead with each teacher in turn produce every outcome; teachers  *)
(*    that hold no session yet differ in id and name only, and of them the *)
(*    first of the catalog leads.                                          *)
(***************************************************************************)
SampleDayNames == <<"Monday", "Tuesday", "Wednesday", "Thursday", "Friday">>
SamplePeriods == 8

SampleCourses ==
    <<[code |-> "CS101", sessions_per_week |-> 3, course_type |-> THEORY],
      [code |-> "CS102", sessions_per_week |-> 2, course_type |-> LAB],
      [code |-> "CS103", sessions_per_week |-> 3, course_type |-> THEORY],
      [code |-> "CS104", sessions_per_week |-> 3, course_type |-> THEORY],
      [code |-> "CS105", sessions_per_week |-> 2, course_type |-> LAB]>>

SampleTeachers ==
    <<[id |-> "t1", name |-> "Dr. John Smith"],
      [id |-> "t2", name |-> "Prof. Sarah Johnson"],
      [id |-> "t3", name |-> "Dr. Michael Brown"],
      [id |-> "t4", name |-> "Prof. Emily Davis"]>>

SampleRooms ==
    <<[id |-> "r1", room_number |-> "A101", room_type |-> THEORY],
      [id |-> "r2", room_number |-> "A102", room_type |-> THEORY],
      [id |-> "r3", room_number |-> "Lab1", room_type |-> LAB],
      [id |-> "r4", room_number |-> "Lab2", room_type |-> LAB]>>

SampleTimeslots(nd) ==
    [k \in 1..(nd * SamplePeriods) |->
        [day |-> SampleDayNames[((k - 1) \div SamplePeriods) + 1],
         period |-> ((k - 1) % SamplePeriods) + 1]]

SampleGroups ==
    <<[id |-> "g1", name |-> "CS-A"],
      [id |-> "g2", name |-> "CS-B"],
      [id |-> "g3", name |-> "IT-A"]>>

(* the sessions that solve has to place: 13 for each of the 3 groups *)
SampleSessions == Load(SampleCourses) * Len(SampleGroups)

SampleInit ==
    /\ WebUnused
    /\ courses = SampleCourses
    /\ teachers = SampleTeachers
    /\ rooms = SampleRooms
    /\ timeslots \in {SampleTimeslots(1), SampleTimeslots(Len(SampleDayNames))}
    /\ groups = SampleGroups
    /\ solution = <<>>
    /\ teacher_assignments = EmptyDict
    /\ room_assignments = EmptyDict
    /\ group_assignments = EmptyDict
    /\ course_teacher_map = EmptyDict
    /\ course_day_sessions = EmptyDict
    /\ pc = "init"
    /\ shuffled_courses = <<>>
    /\ shuffled_groups = <<>>
    /\ ci = 0 /\ gi = 0 /\ session = 0
    /\ returned = None
    /\ update_calls = <<>>
    /\ draws = <<>>
    /\ earlier = [pc |-> "init", solution |-> <<>>, draws |-> <<>>]
    /\ mode = "first"

Alike(a, b) ==
    a.sessions_per_week = b.sessions_per_week /\ a.course_type = b.course_type

(* the shuffles of the courses that keep like courses in catalog order *)
CourseOrders ==
    { [i \in 1..Len(courses) |-> courses[p[i]]] :
        p \in { q \in Permutations(1..Len(courses)) :
                  \A i, j \in 1..Len(courses) :
                      i < j /\ Alike(courses[q[i]], courses[q[j]]) => q[i] < q[j] } }

Holds(teacher) == teacher.id \in DOMAIN teacher_assignments

(* the shuffles of the teachers that lead with one teacher, the others in
   catalog order: a teacher that holds a session, or the first that holds none *)
LeadingShuffles ==
    { <<teachers[k]>> \o SelectSeq(teachers, LAMBDA t : t # teachers[k]) :
        k \in { n \in DOMAIN teachers :
                  Holds(teachers[n]) \/ \A m \in 1..(n - 1) : Holds(teachers[m]) } }

SampleBegin ==
    \E cs \in CourseOrders : Begin(cs, groups) /\ UNCHANGED runs

SamplePlaced ==
    /\ pc = "scheduling"
    /\ IF DrawsShuffle
       THEN \E shuffled \in LeadingShuffles : Place(shuffled)
       ELSE Place(teachers)
    /\ UNCHANGED runs

SampleFailed ==
    /\ pc = "scheduling"
    /\ DrawsShuffle
    /\ \E shuffled \in LeadingShuffles : Fail(shuffled)
    /\ UNCHANGED runs

SampleNext == SampleBegin \/ SamplePlaced \/ SampleFailed

SampleSpec == SampleInit /\ [][SampleNext]_vars

(* the summary counting the catalog's teachers instead of those of the solution *)
get_solution_summaryOfCatalog ==
    IF solution = <<>>
    THEN [total_assignments |-> 0, courses_scheduled |-> 0, teachers_used |-> 0,
          rooms_used |-> 0, groups_scheduled |-> 0]
    ELSE [total_assignments |-> Len(solution),
          courses_scheduled |-> Cardinality({ solution[n].course_code : n \in DOMAIN solution }),
          teachers_used |-> Len(teachers),
          rooms_used |-> Cardinality({ solution[n].room_number : n \in DOMAIN solution }),
          groups_scheduled |-> Cardinality({ solution[n].group_name : n \in DOMAIN solution })]

(* get_solution_summary, over the solution the solver holds *)
get_solution_summary ==
    IF solution = <<>>
    THEN [total_assignments |-> 0, courses_scheduled |-> 0, teachers_used |-> 0,
          rooms_used |-> 0, groups_scheduled |-> 0]
    ELSE [total_assignments |-> Len(solution),
          courses_scheduled |-> Cardinality({ solution[n].course_code : n \in DOMAIN solution }),
          teachers_used |-> Cardinality({ solution[n].teacher_name : n \in DOMAIN solution }),
          rooms_used |-> Cardinality({ solution[n].room_number : n \in DOMAIN solution }),
          groups_scheduled |-> Cardinality({ solution[n].group_name : n \in DOMAIN solution })]

(***************************************************************************)
(* POST /api/generate: generate_timetable.  The request loads the five     *)
(* collections and validates them (generate_request); when they pass, it   *)
(* constructs a solver for them and calls solve, whose steps are those of  *)
(* Spec, and then answers from what solve returned (generate_respond).     *)
(* The store of GenSpec starts with two courses, one teacher, two rooms,   *)
(* two timeslots and one group, and delete requests take records away      *)
(* between generations.  Stored timeslots carry their id beside the day    *)
(* and period that the solver reads.                                       *)
(***************************************************************************)
GenStore ==
    [courses |-> <<[id |-> 1, code |-> "CS101", name |-> "Data Structures",
                    sessions_per_week |-> 1, course_type |-> THEORY],
                   [id |-> 2, code |-> "CS102", name |-> "Database Lab",
                    sessions_per_week |-> 1, course_type |-> LAB]>>,
     teachers |-> <<[id |-> "t1", name |-> "Smith"]>>,
     rooms |-> <<[id |-> "r1", room_number |-> "A101", room_type |-> THEORY],
                 [id |-> "r2", room_number |-> "Lab1", room_type |-> LAB]>>,
     timeslots |-> <<[id |-> "s1", day |-> "Mon", period |-> 1],
                     [id |-> "s2", day |-> "Mon", period |-> 2]>>,
     groups |-> <<[id |-> "g1", name |-> "CS-A"]>>]

(* lines 295-298: the rooms, and the courses, of one type *)
RoomsOfType(records, type) == SelectSeq(records, LAMBDA room : room.room_type = type)
CoursesOfType(records, type) == SelectSeq(records, LAMBDA course : course.course_type = type)

(* the validation without its first check *)
RejectionMessageWithoutCourseCheck(st) ==
    IF st.teachers = <<>>
    THEN "No teachers found. Please add at least one teacher first."
    ELSE IF st.rooms = <<>>
    THEN "No rooms found. Please add at least one room first."
    ELSE IF st.timeslots = <<>>
    THEN "No time slots found. Please add time slots first."
    ELSE IF st.groups = <<>>
    THEN "No student groups found. Please add at least one group first."
    ELSE IF /\ CoursesOfType(st.courses, THEORY) # <<>>
            /\ RoomsOfType(st.rooms, THEORY) = <<>>
    THEN "No theory rooms available for theory courses. Please add theory rooms."
    ELSE IF /\ CoursesOfType(st.courses, LAB) # <<>>
            /\ RoomsOfType(st.rooms, LAB) = <<>>
    THEN "No lab rooms available for lab courses. Please add lab rooms."
    ELSE None

(* lines 279-304: the message of the first check that fails, or None *)
RejectionMessage(st) ==
    IF st.courses = <<>>
    THEN "No courses found. Please add at least one course first."
    ELSE IF st.teachers = <<>>
    THEN "No teachers found. Please add at least one teacher first."
    ELSE IF st.rooms = <<>>
    THEN "No rooms found. Please add at least one room first."
    ELSE IF st.timeslots = <<>>
    THEN "No time slots found. Please add time slots first."
    ELSE IF st.groups = <<>>
    THEN "No student groups found. Please add at least one group first."
    ELSE IF /\ CoursesOfType(st.courses, THEORY) # <<>>
            /\ RoomsOfType(st.rooms, THEORY) = <<>>
    THEN "No theory rooms available for theory courses. Please add theory rooms."
    ELSE IF /\ CoursesOfType(st.courses, LAB) # <<>>
            /\ RoomsOfType(st.rooms, LAB) = <<>>
    THEN "No lab rooms available for lab courses. Please add lab rooms."
    ELSE None

(* lines 271-309: load, validate, and construct the solver (__init__) *)
generate_request ==
    /\ handler = "idle"
    /\ IF RejectionMessage(stored) # None
       THEN /\ response' = [status |-> 400, success |-> FALSE,
                            message |-> RejectionMessage(stored)]
            /\ UNCHANGED <<catalog, solution, tracker, driver, handler>>
       ELSE /\ courses' = stored.courses
            /\ teachers' = stored.teachers
            /\ rooms' = stored.rooms
            /\ timeslots' = stored.timeslots
            /\ groups' = stored.groups
            /\ solution' = <<>>
            /\ teacher_assignments' = EmptyDict
            /\ room_assignments' = EmptyDict
            /\ group_assignments' = EmptyDict
            /\ course_teacher_map' = EmptyDict
            /\ course_day_sessions' = EmptyDict
            /\ pc' = "init"
            /\ handler' = "solving"
            /\ UNCHANGED <<shuffled_courses, shuffled_groups, ci, gi, session, returned,
                           response>>
    /\ UNCHANGED <<update_calls, runs, stored, timetable, issued>>

(* lines 312-336: the answer, and the end of the solver object *)
generate_respond ==
    /\ handler = "solving"
    /\ pc \in {"success", "failed"}
    /\ IF pc = "failed"
       THEN /\ response' =
                 [status |-> 400, success |-> FALSE,
                  message |-> "Could not generate timetable. No valid solution found. Try adjusting constraints or adding more resources."]
            /\ UNCHANGED timetable
       ELSE /\ timetable' = returned
            /\ response' = [status |-> 200, success |-> TRUE,
                            message |-> "Timetable generated successfully!",
                            solution |-> returned,
                            formatted_solution |-> format_solution(returned),
                            summary |-> get_solution_summary]
    /\ handler' = "idle"
    /\ courses' = <<>> /\ teachers' = <<>> /\ rooms' = <<>>
    /\ timeslots' = <<>> /\ groups' = <<>>
    /\ solution' = <<>>
    /\ teacher_assignments' = EmptyDict
    /\ room_assignments' = EmptyDict
    /\ group_assignments' = EmptyDict
    /\ course_teacher_map' = EmptyDict
    /\ course_day_sessions' = EmptyDict
    /\ pc' = "none"
    /\ shuffled_courses' = <<>>
    /\ shuffled_groups' = <<>>
    /\ ci' = 0 /\ gi' = 0 /\ session' = 0
    /\ returned' = None
    /\ update_calls' = <<>>
    /\ UNCHANGED <<runs, stored, issued>>

WithoutId(records, id) == SelectSeq(records, LAMBDA x : x.id # id)

(* the DELETE handlers of the five collections: the records of another id
   are saved back *)
DeleteFrom(st) ==
    /\ handler = "idle"
    /\ stored' = st
    /\ response' = [status |-> 200, success |-> TRUE]
    /\ UNCHANGED <<catalog, solution, tracker, driver, update_calls, runs, timetable,
                   handler, issued>>

DeleteStoredCourse == \E x \in Range(stored.courses) : delete_course(x.id)

delete_teacher ==
    \E x \in Range(stored.teachers) :
        DeleteFrom([stored EXCEPT !.teachers = WithoutId(@, x.id)])

delete_room ==
    \E x \in Range(stored.rooms) :
        DeleteFrom([stored EXCEPT !.rooms = WithoutId(@, x.id)])

delete_timeslot ==
    \E x \in Range(stored.timeslots) :
        DeleteFrom([stored EXCEPT !.timeslots = WithoutId(@, x.id)])

delete_group ==
    \E x \in Range(stored.groups) :
        DeleteFrom([stored EXCEPT !.groups = WithoutId(@, x.id)])

GenInit ==
    /\ SolverUnused
    /\ solution = <<>>
    /\ stored = GenStore
    /\ timetable = <<>>
    /\ response = NoResponse
    /\ handler = "idle"
    /\ issued = Len(GenStore.courses)

GenNext ==
    \/ generate_request
    \/ SolveBegin
    \/ SessionPlaced
    \/ SessionFailed
    \/ generate_respond
    \/ DeleteStoredCourse
    \/ delete_teacher
    \/ delete_room
    \/ delete_timeslot
    \/ delete_group

GenSpec == GenInit /\ [][GenNext]_vars

(***************************************************************************)
(* Catalogs whose course codes went through update_course: the handler     *)
(* stores whatever code the request body carries (courses[i].update(data), *)
(* src/app.py:98), the empty string included.  EditedSpec runs solve on    *)
(* the catalogs of Spec with the code of one course blanked, with          *)
(* teachers, rooms and groups that have no namesakes.                      *)
(***************************************************************************)
BlankedCatalogs ==
    UNION { { [cs EXCEPT ![i].code = ""] : i \in DOMAIN cs } : cs \in CourseCatalogs }

EditedInit ==
    /\ WebUnused
    /\ courses \in BlankedCatalogs
    /\ \E c \in StaffCatalogs :
          /\ teachers = c[1] /\ rooms = c[2] /\ groups = c[3]
          /\ ~Repeats(TeacherNames(c[1]))
          /\ ~Repeats(RoomNumbers(c[2]))
          /\ ~Repeats(GroupNames(c[3]))
    /\ timeslots \in TimeslotCatalogs
    /\ solution = <<>>
    /\ teacher_assignments = EmptyDict
    /\ room_assignments = EmptyDict
    /\ group_assignments = EmptyDict
    /\ course_teacher_map = EmptyDict
    /\ course_day_sessions = EmptyDict
    /\ pc = "init"
    /\ shuffled_courses = <<>>
    /\ shuffled_groups = <<>>
    /\ ci = 0 /\ gi = 0 /\ session = 0
    /\ returned = None
    /\ update_calls = <<>>
    /\ draws = <<>>
    /\ earlier = [pc |-> "init", solution |-> <<>>, draws |-> <<>>]
    /\ mode = "first"

EditedSpec == EditedInit /\ [][Next]_vars

(***************************************************************************)
(* Two create-course requests served at the same time (the development     *)
(* server of app.run serves every request in a thread of its own, and      *)
(* add_course takes no lock).  In ConcSpec, handler[r] is the frame of     *)
(* request r: its position, its body (data) and its locals courses and     *)
(* course; response[r] is its answer.  A request takes three steps:        *)
(* validation and load_json; the duplicate check, generate_id and the      *)
(* append to the loaded list; save_json and the answer.  A read and a      *)
(* write of the file are one step each.                                    *)
(***************************************************************************)
Requests == {1, 2}

CreateBodies ==
    { Body(Range(required_fields), 0, code, name, sessions_per_week, course_type) :
        code \in CodeValues, name \in NameValues,
        sessions_per_week \in SessionValues, course_type \in TypeValues }

NoCourse == [id |-> 0]

Frame(at, data, courses_, course) ==
    [at |-> at, data |-> data, courses |-> courses_, course |-> course]

ConcInit ==
    /\ SolverUnused
    /\ solution = <<>>
    /\ stored = NoStore
    /\ timetable = <<>>
    /\ issued = 0
    /\ response = [r \in Requests |-> NoResponse]
    /\ \E bodies \in [Requests -> CreateBodies] :
          handler = [r \in Requests |-> Frame("received", bodies[r], <<>>, NoCourse)]

Answer(r, answer) == response' = [response EXCEPT ![r] = answer]

Goto(r, frame) == handler' = [handler EXCEPT ![r] = frame]

(* lines 59-70: the body is validated and courses.json is loaded *)
add_course_load(r) ==
    /\ handler[r].at = "received"
    /\ LET data == handler[r].data
           missing == { i \in DOMAIN required_fields : NotGiven(data, required_fields[i]) }
       IN  IF missing # {}
           THEN /\ Answer(r, [status |-> 400, success |-> FALSE,
                              message |-> RequiredMessage[required_fields[Min(missing)]]])
                /\ Goto(r, [handler[r] EXCEPT !.at = "done"])
           ELSE /\ Goto(r, [handler[r] EXCEPT !.at = "loaded", !.courses = stored.courses])
                /\ UNCHANGED response
    /\ UNCHANGED <<catalog, solution, tracker, driver, update_calls, runs, stored,
                   timetable, issued>>

(* lines 71-82: the duplicate check on the loaded list, generate_id, and the
   append to the loaded list *)
add_course_append(r) ==
    /\ handler[r].at = "loaded"
    /\ LET data == handler[r].data
           loaded == handler[r].courses
       IN  IF \E i \in DOMAIN loaded : loaded[i].code = data["code"]
           THEN /\ Answer(r, [status |-> 400, success |-> FALSE,
                              message |-> "Course code already exists"])
                /\ Goto(r, [handler[r] EXCEPT !.at = "done"])
                /\ UNCHANGED issued
           ELSE LET course == [id |-> issued + 1, code |-> data["code"],
                               name |-> data["name"],
                               sessions_per_week |-> data["sessions_per_week"],
                               course_type |-> data["course_type"]]
                IN  /\ issued' = issued + 1
                    /\ Goto(r, [handler[r] EXCEPT !.at = "appended", !.course = course,
                                                  !.courses = Append(loaded, course)])
                    /\ UNCHANGED response
    /\ UNCHANGED <<catalog, solution, tracker, driver, update_calls, runs, stored, timetable>>

(* lines 83-84: save_json writes the loaded list with the new course, and the
   request is answered *)
add_course_save(r) ==
    /\ handler[r].at = "appended"
    /\ stored' = SaveCourses(handler[r].courses)
    /\ Answer(r, [status |-> 200, success |-> TRUE, course |-> handler[r].course])
    /\ Goto(r, [handler[r] EXCEPT !.at = "done"])
    /\ UNCHANGED <<catalog, solution, tracker, driver, update_calls, runs, timetable, issued>>

LoadStep == \E r \in Requests : add_course_load(r)

AppendStep == \E r \in Requests : add_course_append(r)

SaveStep == \E r \in Requests : add_course_save(r)

ConcNext == LoadStep \/ AppendStep \/ SaveStep

ConcSpec == ConcInit /\ [][ConcNext]_vars

(***************************************************************************)
(* Vocabulary of the properties.                                           *)
(***************************************************************************)
Succeeded == pc = "success"
Failed == pc = "failed"

DistinctTeacherNames == ~Repeats(TeacherNames(teachers))
DistinctRoomNumbers == ~Repeats(RoomNumbers(rooms))
DistinctGroupNames == ~Repeats(GroupNames(groups))

SameSlot(a, b) == a.day = b.day /\ a.period = b.period

(* sol[n] is the Assignment of the n-th commit: same course, day and period,
   and the names of the teacher, room and group that were committed *)
CommittedAs(sol) ==
    /\ Len(sol) = Len(update_calls)
    /\ \A n \in DOMAIN sol :
          /\ sol[n].course_code = update_calls[n].course_code
          /\ SameSlot(sol[n], update_calls[n])
          /\ \E i \in DOMAIN teachers :
                /\ teachers[i].id = update_calls[n].teacher_id
                /\ teachers[i].name = sol[n].teacher_name
          /\ \E i \in DOMAIN rooms :
                /\ rooms[i].id = update_calls[n].room_id
                /\ rooms[i].room_number = sol[n].room_number
          /\ \E i \in DOMAIN groups :
                /\ groups[i].id = update_calls[n].group_id
                /\ groups[i].name = sol[n].group_name

(* commits of one teacher (by id) on one day *)
TeacherLoad(teacher_id, day) ==
    Cardinality({ n \in DOMAIN update_calls :
                    update_calls[n].teacher_id = teacher_id /\ update_calls[n].day = day })

(* commits of one course for one group (by id) *)
PairCommits(code, group_id) ==
    { n \in DOMAIN update_calls :
        update_calls[n].course_code = code /\ update_calls[n].group_id = group_id }

PairDayCommits(code, group_id, day) ==
    { n \in PairCommits(code, group_id) : update_calls[n].day = day }

(* every (teacher, type-matching room, timeslot) for the session that the
   driver is about to place *)
Candidates ==
    IF pc = "scheduling"
    THEN { [course |-> shuffled_courses[ci], group |-> shuffled_groups[gi],
            teacher |-> t, room |-> r, timeslot |-> ts] :
              t \in Range(teachers),
              r \in Range(get_rooms_for_course(shuffled_courses[ci], rooms)),
              ts \in Range(timeslots) }
    ELSE {}

(* the candidates that one loop of assign_session over tseq hands to is_valid:
   those up to the first one accepted *)
TriedIn(tseq, course, group) ==
    LET valid_rooms == get_rooms_for_course(course, rooms)
        nr == Len(valid_rooms)
        nt == Len(timeslots)
        CandidateAt(k) ==
            [course |-> course, group |-> group,
             teacher |-> tseq[((k - 1) \div (nr * nt)) + 1],
             room |-> valid_rooms[(((k - 1) \div nt) % nr) + 1],
             timeslot |-> timeslots[((k - 1) % nt) + 1]]
        Accepts(k) ==
            LET c == CandidateAt(k)
            IN  is_valid(c.course, c.teacher, c.room, c.timeslot, c.group)
    IN  { CandidateAt(k) :
            k \in { n \in 1..(Len(tseq) * nr * nt) : \A m \in 1..(n - 1) : ~Accepts(m) } }

(* the candidates that the next call of assign_session hands to is_valid, for
   some shuffle of the teachers *)
Tried ==
    IF pc = "scheduling"
    THEN LET course == shuffled_courses[ci]
             group == shuffled_groups[gi]
             preferred_teacher_id == Get(course_teacher_map, course.code, None)
         IN  UNION { LET first == Pass1Teachers(preferred_teacher_id, shuffled)
                     IN  TriedIn(first, course, group)
                         \cup IF Truthy(preferred_teacher_id)
                                  /\ ~FirstFit(first, course, group).found
                               THEN TriedIn(shuffled, course, group)
                               ELSE {} :
                     shuffled \in Shuffles(teachers) }
    ELSE {}


(***************************************************************************)
(* C1.  As claimed: in every Solution returned by solve, no two distinct   *)
(* Assignments have the same (teacher_name, day, period), for any catalog. *)
(***************************************************************************)
C1_NoSharedTeacherName ==
    Succeeded =>
        \A m, n \in DOMAIN returned :
            m # n => ~(returned[m].teacher_name = returned[n].teacher_name
                       /\ SameSlot(returned[m], returned[n]))

(***************************************************************************)
(* C1, amended.  In every Solution returned by solve no two distinct       *)
(* Assignments were committed to the same teacher (catalog id) at the same *)
(* (day, period); they have the same (teacher_name, day, period) only when *)
(* two teachers of the catalog bear the same name.                         *)
(***************************************************************************)
C1_NoTeacherDoubleBooked ==
    Succeeded =>
        /\ CommittedAs(returned)
        /\ \A m, n \in DOMAIN update_calls :
              m # n => ~(update_calls[m].teacher_id = update_calls[n].teacher_id
                         /\ SameSlot(update_calls[m], update_calls[n]))
        /\ DistinctTeacherNames => C1_NoSharedTeacherName

(* a returned Solution in which one teacher holds two slots of one day, in a
   catalog of two teachers with different names *)
C1_Witness ==
    /\ Succeeded
    /\ Len(teachers) = 2 /\ DistinctTeacherNames
    /\ \E m, n \in DOMAIN returned :
          /\ m # n
          /\ returned[m].teacher_name = returned[n].teacher_name
          /\ returned[m].day = returned[n].day

(***************************************************************************)
(* C2.  As claimed: in every Solution returned by solve, no two distinct   *)
(* Assignments have the same (room_number, day, period), for any catalog.  *)
(***************************************************************************)
C2_NoSharedRoomNumber ==
    Succeeded =>
        \A m, n \in DOMAIN returned :
            m # n => ~(returned[m].room_number = returned[n].room_number
                       /\ SameSlot(returned[m], returned[n]))

(***************************************************************************)
(* C2, amended.  In every Solution returned by solve no two distinct       *)
(* Assignments were committed to the same room (catalog id) at the same    *)
(* (day, period); they have the same (room_number, day, period) only when  *)
(* two rooms of the catalog bear the same room number.                     *)
(***************************************************************************)
C2_NoRoomDoubleBooked ==
    Succeeded =>
        /\ CommittedAs(returned)
        /\ \A m, n \in DOMAIN update_calls :
              m # n => ~(update_calls[m].room_id = update_calls[n].room_id
                         /\ SameSlot(update_calls[m], update_calls[n]))
        /\ DistinctRoomNumbers => C2_NoSharedRoomNumber

(* a returned Solution in which one room holds two slots of one day, in a
   catalog of two rooms of one type with different numbers *)
C2_Witness ==
    /\ Succeeded
    /\ Len(rooms) = 2 /\ DistinctRoomNumbers /\ rooms[1].room_type = rooms[2].room_type
    /\ \E m, n \in DOMAIN returned :
          /\ m # n
          /\ returned[m].room_number = returned[n].room_number
          /\ returned[m].day = returned[n].day

(***************************************************************************)
(* C3.  As claimed: in every Solution returned by solve, no two distinct   *)
(* Assignments have the same (group_name, day, period), for any catalog.   *)
(***************************************************************************)
C3_NoSharedGroupName ==
    Succeeded =>
        \A m, n \in DOMAIN returned :
            m # n => ~(returned[m].group_name = returned[n].group_name
                       /\ SameSlot(returned[m], returned[n]))

(***************************************************************************)
(* C3, amended.  In every Solution returned by solve no two distinct       *)
(* Assignments were committed to the same group (catalog id) at the same   *)
(* (day, period); they have the same (group_name, day, period) only when   *)
(* two groups of the catalog bear the same name.                           *)
(***************************************************************************)
C3_NoGroupDoubleBooked ==
    Succeeded =>
        /\ CommittedAs(returned)
        /\ \A m, n \in DOMAIN update_calls :
              m # n => ~(update_calls[m].group_id = update_calls[n].group_id
                         /\ SameSlot(update_calls[m], update_calls[n]))
        /\ DistinctGroupNames => C3_NoSharedGroupName

(* a returned Solution in which one group holds two slots of one day, in a
   catalog of two groups with different names *)
C3_Witness ==
    /\ Succeeded
    /\ Len(groups) = 2 /\ DistinctGroupNames
    /\ \E m, n \in DOMAIN returned :
          /\ m # n
          /\ returned[m].group_name = returned[n].group_name
          /\ returned[m].day = returned[n].day

(***************************************************************************)
(* C4.  Every Assignment ever committed to the Solution has course_type    *)
(* equal to room_type.                                                     *)
(***************************************************************************)
C4_RoomTypeMatches ==
    \A n \in DOMAIN solution : solution[n].course_type = solution[n].room_type

(* a Lab course committed in a catalog that also has a Theory room, listed
   before the Lab room *)
C4_Witness ==
    /\ \E n \in DOMAIN solution : solution[n].course_type = LAB
    /\ \E i \in DOMAIN rooms : rooms[i].room_type = THEORY


(***************************************************************************)
(* C5.  As claimed: when solve returns a Solution, for every (course,      *)
(* group) pair of the catalog the number of Assignments with that          *)
(* course_code and group_name equals sessions_per_week, and the Solution   *)
(* has sum(sessions_per_week) x |groups| Assignments.                      *)
(***************************************************************************)
CountByNames(code, group_name) ==
    Cardinality({ n \in DOMAIN returned :
                    returned[n].course_code = code /\ returned[n].group_name = group_name })

C5_ExactByGroupName ==
    Succeeded =>
        /\ \A i \in DOMAIN courses, j \in DOMAIN groups :
              CountByNames(courses[i].code, groups[j].name) = courses[i].sessions_per_week
        /\ Len(returned) = Load(courses) * Len(groups)

(***************************************************************************)
(* C5, amended.  When solve returns a Solution, for every (course, group)  *)
(* pair of the catalog the number of Assignments committed for that course *)
(* and that group (catalog id) equals sessions_per_week, and the Solution  *)
(* has sum(sessions_per_week) x |groups| Assignments; the Assignments with *)
(* that course_code and group_name number sessions_per_week when no other  *)
(* group of the catalog bears the same name.                               *)
(***************************************************************************)
C5_ExactByGroup ==
    Succeeded =>
        /\ CommittedAs(returned)
        /\ \A i \in DOMAIN courses, j \in DOMAIN groups :
              /\ Cardinality(PairCommits(courses[i].code, groups[j].id))
                    = courses[i].sessions_per_week
              /\ (\A k \in DOMAIN groups : groups[k].name = groups[j].name => k = j)
                    => CountByNames(courses[i].code, groups[j].name)
                          = courses[i].sessions_per_week
        /\ Len(returned) = Load(courses) * Len(groups)

(* a returned Solution for two courses and two groups, one course with
   several sessions a week *)
C5_Witness ==
    /\ Succeeded
    /\ Len(courses) = 2 /\ Len(groups) = 2
    /\ \E i \in DOMAIN courses : courses[i].sessions_per_week >= 2
    /\ Len(returned) >= 6

(***************************************************************************)
(* C6.  When assign_session fails, solve returns the failure signal and no *)
(* Assignment committed before the failure is observable through the       *)
(* solver: the solution it holds is empty and get_solution_summary reports *)
(* nothing.                                                                *)
(***************************************************************************)
C6_FailureDiscardsSolution ==
    Failed =>
        /\ returned = None
        /\ solution = <<>>
        /\ get_solution_summary.total_assignments = 0

(***************************************************************************)
(* C7.  In every reachable state no two committed Assignments of the same  *)
(* course code for the same group on the same day sit at periods exactly 1 *)
(* apart.  (That same-day repeats at non-adjacent periods remain possible  *)
(* is the reachability of C7_Witness.)                                     *)
(***************************************************************************)
C7_NoBackToBack ==
    \A m, n \in DOMAIN solution :
        /\ solution[m].course_code = solution[n].course_code
        /\ solution[m].group_name = solution[n].group_name
        /\ solution[m].day = solution[n].day
        => Abs(solution[m].period - solution[n].period) # 1

(* one course placed twice for one group on one day, two periods apart, the
   period between them free for the group *)
C7_Witness ==
    \E m, n \in DOMAIN solution :
        /\ solution[m].course_code = solution[n].course_code
        /\ solution[m].group_name = solution[n].group_name
        /\ solution[m].day = solution[n].day
        /\ solution[n].period = solution[m].period + 2
        /\ update_calls[m].group_id = update_calls[n].group_id
        /\ ~\E k \in DOMAIN update_calls :
              /\ update_calls[k].group_id = update_calls[m].group_id
              /\ update_calls[k].day = update_calls[m].day
              /\ update_calls[k].period = update_calls[m].period + 1

(***************************************************************************)
(* C8.  In every reachable state at most 2 Assignments are committed for   *)
(* every (course, group, day), and a candidate is rejected whenever its    *)
(* course already has 2 sessions for its group on its day.                 *)
(***************************************************************************)
C8_CourseDayCap ==
    /\ \A i \in DOMAIN courses, j \in DOMAIN groups, d \in Range(DayNames) :
          Cardinality(PairDayCommits(courses[i].code, groups[j].id, d)) <= 2
    /\ \A c \in Candidates :
          Cardinality(PairDayCommits(c.course.code, c.group.id, c.timeslot.day)) >= 2
             => ~is_valid(c.course, c.teacher, c.room, c.timeslot, c.group)

(* a candidate handed to is_valid that only the per-day course cap rejects:
   the course has 2 sessions for the group on that day and every other check
   passes *)
C8_Witness ==
    \E c \in Tried :
        /\ Cardinality(PairDayCommits(c.course.code, c.group.id, c.timeslot.day)) = 2
        /\ ~TeacherConflict(c.teacher, c.timeslot)
        /\ ~RoomConflict(c.room, c.timeslot)
        /\ ~GroupConflict(c.group, c.timeslot)
        /\ ~AdjacencyViolation(c.course, c.timeslot, c.group)
        /\ ~DailyTeacherCap(c.teacher, c.timeslot)

(***************************************************************************)
(* C9.  In every reachable state no teacher has more than 6 committed      *)
(* Assignments on a single day, and a candidate is rejected for the daily  *)
(* teacher cap only when that teacher itself has 6 or more committed       *)
(* Assignments on that day.                                                *)
(***************************************************************************)
RejectedForTeacherCap(c) ==
    /\ ~TeacherConflict(c.teacher, c.timeslot)
    /\ ~RoomConflict(c.room, c.timeslot)
    /\ ~GroupConflict(c.group, c.timeslot)
    /\ ~TypeMismatch(c.course, c.room)
    /\ ~AdjacencyViolation(c.course, c.timeslot, c.group)
    /\ ~DailyCourseCap(c.course, c.timeslot, c.group)
    /\ DailyTeacherCap(c.teacher, c.timeslot)

C9_TeacherCapOwnLoad ==
    /\ \A i \in DOMAIN teachers, d \in Range(DayNames) :
          TeacherLoad(teachers[i].id, d) <= 6
    /\ \A c \in Tried :
          RejectedForTeacherCap(c) => TeacherLoad(c.teacher.id, c.timeslot.day) >= 6

(***************************************************************************)
(* C10.  The preferred-teacher entry of a course is set exactly once, at   *)
(* the first successful placement of a session of that course, to the      *)
(* teacher of that placement, and no later assign_session call changes or  *)
(* removes it.                                                             *)
(***************************************************************************)
Placed(code) == \E n \in DOMAIN update_calls : update_calls[n].course_code = code

C10_Step ==
    \A i \in DOMAIN courses :
        LET code == courses[i].code
        IN  /\ code \in DOMAIN course_teacher_map
                => /\ code \in DOMAIN course_teacher_map'
                   /\ course_teacher_map'[code] = course_teacher_map[code]
            /\ ~Placed(code) /\ Placed(code)'
                => /\ code \in DOMAIN course_teacher_map'
                   /\ course_teacher_map'[code]
                         = update_calls'[Len(update_calls')].teacher_id
            /\ code \in DOMAIN course_teacher_map' => Placed(code)'

C10_PreferredTeacherSetOnce == [][C10_Step]_vars

(* a session placed by the second loop with a teacher other than the
   preferred teacher of its course, the entry still naming the first one *)
C10_Witness ==
    \E n \in DOMAIN update_calls :
        /\ update_calls[n].course_code \in DOMAIN course_teacher_map
        /\ update_calls[n].teacher_id # course_teacher_map[update_calls[n].course_code]

(***************************************************************************)
(* C11.  Whenever a preferred teacher is recorded for the course, the      *)
(* first loop of assign_session tries only that teacher, and the session   *)
(* is committed to another teacher only if is_valid rejects every          *)
(* (type-matching room, timeslot) pair for the preferred teacher in the    *)
(* state of the call; when none is recorded the first loop runs over every *)
(* teacher of the catalog, and each teacher that has an acceptable pair is *)
(* the one committed under some shuffle.                                   *)
(***************************************************************************)
HasAcceptablePair(course, teacher, group) ==
    \E i \in DOMAIN rooms, k \in DOMAIN timeslots :
        /\ rooms[i].room_type = course.course_type
        /\ is_valid(course, teacher, rooms[i], timeslots[k], group)

C11_Step ==
    pc = "scheduling" =>
        LET course == shuffled_courses[ci]
            group == shuffled_groups[gi]
            preferred_teacher_id == Get(course_teacher_map, course.code, None)
        IN  IF Truthy(preferred_teacher_id)
            THEN /\ \A shuffled \in Shuffles(teachers) :
                      Range(Pass1Teachers(preferred_teacher_id, shuffled))
                          = { t \in Range(teachers) : t.id = preferred_teacher_id }
                 /\ Len(update_calls') > Len(update_calls)
                       /\ update_calls'[Len(update_calls')].teacher_id # preferred_teacher_id
                    => \A i \in DOMAIN teachers :
                          teachers[i].id = preferred_teacher_id
                             => ~HasAcceptablePair(course, teachers[i], group)
            ELSE /\ \A shuffled \in Shuffles(teachers) :
                      Pass1Teachers(preferred_teacher_id, shuffled) = shuffled
                 /\ \A i \in DOMAIN teachers :
                      HasAcceptablePair(course, teachers[i], group)
                         => \E shuffled \in Shuffles(teachers) :
                               LET r == assign_session(course, group, shuffled)
                               IN  r.ok /\ r.pass = 1 /\ r.teacher = teachers[i]

C11_PreferredTeacherFirst == [][C11_Step]_vars

(* a session of a course committed to another teacher than the recorded one,
   at a slot that the recorded teacher already holds *)
C11_Witness ==
    \E m, n \in DOMAIN update_calls :
        /\ m < n
        /\ update_calls[n].course_code \in DOMAIN course_teacher_map
        /\ update_calls[m].teacher_id = course_teacher_map[update_calls[n].course_code]
        /\ update_calls[n].teacher_id # update_calls[m].teacher_id
        /\ SameSlot(update_calls[m], update_calls[n])

NamedSessionsBefore(n, teacher_name, day) ==
    { m \in 1..(n - 1) : solution[m].teacher_name = teacher_name /\ solution[m].day = day }

Terminated == Succeeded \/ Failed

Outcome ==
    /\ pc \in {"init", "scheduling", "success", "failed"}
    /\ Succeeded => returned = solution
    /\ Failed => returned = None
    /\ ~Terminated => returned = None

C13_TerminatesInOutcome == []Outcome /\ <>[]Terminated

(* a run over two courses that ended after at least three placements *)
C13_Witness == Terminated /\ Len(update_calls) >= 3 /\ Len(courses) = 2

(***************************************************************************)
(* C14.  The search is incomplete.  In the catalog of C14_Catalog (CS101   *)
(* once and CS102 twice a week, one teacher, one room, one group, Mon/P1   *)
(* to Mon/P3) an arrangement that meets every constraint and every         *)
(* sessions_per_week exists: a run that takes CS102 first returns one.  A  *)
(* run that takes CS101 first reports Infeasible: CS101 holds Mon/P1,      *)
(* CS102 gets Mon/P2, and Mon/P3 is adjacent to it.                        *)
(***************************************************************************)
(* the arrangement arr (commits by id) meets the seven constraints and the
   sessions_per_week of every (course, group) *)
Satisfies(arr) ==
    /\ \A m, n \in DOMAIN arr :
          m # n /\ SameSlot(arr[m], arr[n])
             => /\ arr[m].teacher_id # arr[n].teacher_id
                /\ arr[m].room_id # arr[n].room_id
                /\ arr[m].group_id # arr[n].group_id
    /\ \A n \in DOMAIN arr :
          \E i \in DOMAIN courses, j \in DOMAIN rooms :
              /\ courses[i].code = arr[n].course_code
              /\ rooms[j].id = arr[n].room_id
              /\ courses[i].course_type = rooms[j].room_type
    /\ \A m, n \in DOMAIN arr :
          /\ arr[m].course_code = arr[n].course_code
          /\ arr[m].group_id = arr[n].group_id
          /\ arr[m].day = arr[n].day
          => Abs(arr[m].period - arr[n].period) # 1
    /\ \A n \in DOMAIN arr :
          /\ Cardinality({ m \in DOMAIN arr :
                             /\ arr[m].course_code = arr[n].course_code
                             /\ arr[m].group_id = arr[n].group_id
                             /\ arr[m].day = arr[n].day }) <= CourseDayCap
          /\ Cardinality({ m \in DOMAIN arr :
                             /\ arr[m].teacher_id = arr[n].teacher_id
                             /\ arr[m].day = arr[n].day }) <= TeacherDayCap
    /\ \A i \in DOMAIN courses, j \in DOMAIN groups :
          Cardinality({ n \in DOMAIN arr :
                          /\ arr[n].course_code = courses[i].code
                          /\ arr[n].group_id = groups[j].id })
              = courses[i].sessions_per_week

C14_Catalog ==
    /\ Len(courses) = 2
    /\ courses[1].sessions_per_week = 1 /\ courses[2].sessions_per_week = 2
    /\ courses[2].course_type = THEORY
    /\ Len(teachers) = 1 /\ Len(rooms) = 1 /\ Len(groups) = 1
    /\ Len(timeslots) = 3 /\ timeslots[3].day = timeslots[1].day

C15_EmptyCoursesSucceed ==
    courses = <<>> =>
        /\ pc \in {"init", "success"}
        /\ Succeeded => returned = <<>>
        /\ solution = <<>>
        /\ update_calls = <<>>
        /\ tracker = <<EmptyDict, EmptyDict, EmptyDict, EmptyDict, EmptyDict>>

(* the run over no course and otherwise full collections has returned *)
C15_Witness ==
    /\ courses = <<>>
    /\ Succeeded
    /\ Len(teachers) = 2 /\ Len(rooms) = 2 /\ Len(groups) = 2
    /\ Len(timeslots) = 2 * MaxPeriods

(***************************************************************************)
(* C16.  Scenario A: one Theory course with sessions_per_week = 2, one     *)
(* teacher, one Theory room, one group and the timeslots Mon/P1, Mon/P2,   *)
(* Mon/P3 in that order.  Every run succeeds with exactly 2 Assignments,   *)
(* the first at Mon/P1 and the second at Mon/P3; for the second session    *)
(* Mon/P2 is free for teacher, room and group and is rejected by the       *)
(* adjacency rule.                                                         *)
(***************************************************************************)
C16_Catalog ==
    /\ Len(courses) = 1
    /\ courses[1].sessions_per_week = 2 /\ courses[1].course_type = THEORY
    /\ Len(teachers) = 1 /\ Len(rooms) = 1 /\ Len(groups) = 1
    /\ rooms[1].room_type = THEORY
    /\ timeslots = TimeslotGrid(1, 3)

C16_ScenarioA ==
    C16_Catalog =>
        /\ ~Failed
        /\ Succeeded =>
              /\ Len(returned) = 2
              /\ returned[1].day = "Mon" /\ returned[1].period = 1
              /\ returned[2].day = "Mon" /\ returned[2].period = 3
        /\ pc = "scheduling" /\ session = 1 =>
              /\ Len(solution) = 1
              /\ ~TeacherConflict(teachers[1], timeslots[2])
              /\ ~RoomConflict(rooms[1], timeslots[2])
              /\ ~GroupConflict(groups[1], timeslots[2])
              /\ AdjacencyViolation(courses[1], timeslots[2], groups[1])
              /\ ~is_valid(courses[1], teachers[1], rooms[1], timeslots[2], groups[1])
              /\ is_valid(courses[1], teachers[1], rooms[1], timeslots[3], groups[1])

(* the run of Scenario A has returned its two Assignments *)
C16_Witness == C16_Catalog /\ Succeeded /\ Len(returned) = 2

(***************************************************************************)
(* C17.  Scenario B: one Lab course, no Lab room and at least one Theory   *)
(* room, with teachers, timeslots and a group present.  The first call of  *)
(* assign_session has no room to try and fails, and solve reports          *)
(* Infeasible with no Assignment committed.                                *)
(***************************************************************************)
C17_Catalog ==
    /\ Len(courses) = 1 /\ courses[1].course_type = LAB
    /\ rooms # <<>> /\ \A i \in DOMAIN rooms : rooms[i].room_type = THEORY
    /\ teachers # <<>> /\ timeslots # <<>> /\ groups # <<>>

C17_ScenarioB ==
    C17_Catalog =>
        /\ ~Succeeded
        /\ solution = <<>> /\ update_calls = <<>>
        /\ pc = "scheduling" =>
              /\ ci = 1 /\ gi = 1 /\ session = 0
              /\ get_rooms_for_course(courses[1], rooms) = <<>>
              /\ Tried = {}
              /\ \A shuffled \in Shuffles(teachers) :
                    ~assign_session(courses[1], shuffled_groups[1], shuffled).ok
        /\ Failed => returned = None /\ ci = 1 /\ gi = 1 /\ session = 0

(* the run of Scenario B has reported Infeasible, in a catalog of two
   teachers, two Theory rooms and two groups *)
C17_Witness ==
    /\ C17_Catalog
    /\ Failed
    /\ Len(teachers) = 2 /\ Len(rooms) = 2 /\ Len(groups) = 2

(***************************************************************************)
(* C18.  Scenario C: one course with sessions_per_week = 3, one teacher,   *)
(* one matching room, one group.  With the timeslots P1..P5 of a single    *)
(* day the run reports Infeasible after placing two sessions, at P1 and    *)
(* P3: for the third session P5 is free and not adjacent, and the per-day  *)
(* cap rejects it.  With the same periods on a second day as well the run  *)
(* succeeds, the third session on the second day.                          *)
(***************************************************************************)
C18_Staff ==
    /\ Len(courses) = 1 /\ courses[1].sessions_per_week = 3
    /\ Len(teachers) = 1 /\ Len(groups) = 1
    /\ Len(rooms) = 1 /\ rooms[1].room_type = courses[1].course_type

C18_OneDay == C18_Staff /\ timeslots = TimeslotGrid(1, 5)

C18_TwoDays ==
    /\ C18_Staff
    /\ Len(timeslots) >= 10
    /\ \E k \in DOMAIN timeslots : timeslots[k].day # timeslots[1].day

C18_ScenarioC ==
    /\ C18_OneDay =>
          /\ ~Succeeded
          /\ pc = "scheduling" /\ session = 2 =>
                /\ ~TeacherConflict(teachers[1], timeslots[5])
                /\ ~RoomConflict(rooms[1], timeslots[5])
                /\ ~GroupConflict(groups[1], timeslots[5])
                /\ ~AdjacencyViolation(courses[1], timeslots[5], groups[1])
                /\ DailyCourseCap(courses[1], timeslots[5], groups[1])
          /\ Failed =>
                /\ returned = None
                /\ Len(update_calls) = 2
                /\ update_calls[1].period = 1 /\ update_calls[2].period = 3
    /\ C18_TwoDays =>
          /\ ~Failed
          /\ Succeeded =>
                /\ Len(returned) = 3
                /\ returned[1].day = timeslots[1].day /\ returned[1].period = 1
                /\ returned[2].day = timeslots[1].day /\ returned[2].period = 3
                /\ returned[3].day # timeslots[1].day

(* the single-day run after the per-day cap has refused the third session *)
C18_Witness == C18_OneDay /\ Failed /\ Len(update_calls) = 2

(* the two-day run has returned its three Assignments *)
C18_WitnessTwoDays == C18_TwoDays /\ Succeeded /\ Len(returned) = 3

(***************************************************************************)
(* C19.  Determinism: a second run on a new solver over the same catalog,  *)
(* drawing the same shuffles as the first, commits the same Assignments in *)
(* the same order, draws no other shuffle, and ends as the first ended,    *)
(* with the same Solution.                                                 *)
(***************************************************************************)
IsPrefix(a, b) == Len(a) <= Len(b) /\ \A i \in DOMAIN a : a[i] = b[i]

C20_EverySolveStartsEmpty ==
    /\ pc = "init" =>
          /\ solution = <<>>
          /\ tracker = <<EmptyDict, EmptyDict, EmptyDict, EmptyDict, EmptyDict>>
    /\ mode # "first" /\ Terminated =>
          pc = earlier.pc /\ solution = earlier.solution

(* what holds of solve called twice on one solver: the second call starts
   from the Solution and the tracker that the first left *)
C20_SecondSolveContinues ==
    mode = "reused" =>
        /\ IsPrefix(earlier.solution, solution)
        /\ pc = "init" => solution = earlier.solution

(***************************************************************************)
(* C21.  No step of a run changes any of the five catalog collections:     *)
(* after solve, on success and on failure, each of courses, teachers,      *)
(* rooms, timeslots and groups has the elements it had, in the order it    *)
(* had, although solve iterates courses and groups in shuffled order.      *)
(***************************************************************************)
C21_CatalogNeverMutated == [][catalog' = catalog]_vars

(* a finished run that went through both courses and both groups in an order
   other than the catalog's *)
C21_Witness ==
    /\ Terminated
    /\ Len(update_calls) >= 2
    /\ Len(courses) = 2 /\ shuffled_courses # courses
    /\ Len(groups) = 2 /\ shuffled_groups # groups

(***************************************************************************)
(* C23.  The summary of the Solution reports its length as the total and,  *)
(* for course codes, teacher names, room numbers and group names, how many *)
(* different values occur in it; all five counts are 0 for the empty       *)
(* Solution.  A value is counted at its first occurrence in the Solution.  *)
(***************************************************************************)
FirstOccurrences(sol, Field(_)) ==
    { n \in DOMAIN sol : \A m \in 1..(n - 1) : Field(sol[m]) # Field(sol[n]) }

CountDistinct(sol, Field(_)) == Cardinality(FirstOccurrences(sol, Field))

C23_SummaryCounts ==
    LET summary == get_solution_summary
    IN  /\ summary.total_assignments = Len(solution)
        /\ summary.courses_scheduled = CountDistinct(solution, LAMBDA a : a.course_code)
        /\ summary.teachers_used = CountDistinct(solution, LAMBDA a : a.teacher_name)
        /\ summary.rooms_used = CountDistinct(solution, LAMBDA a : a.room_number)
        /\ summary.groups_scheduled = CountDistinct(solution, LAMBDA a : a.group_name)
        /\ solution = <<>> =>
              summary = [total_assignments |-> 0, courses_scheduled |-> 0,
                         teachers_used |-> 0, rooms_used |-> 0, groups_scheduled |-> 0]

(* a returned Solution in which every count is smaller than the total, and
   fewer teachers are used than the catalog has *)
C23_Witness ==
    LET summary == get_solution_summary
    IN  /\ Succeeded
        /\ summary.total_assignments = 4
        /\ summary.courses_scheduled = 2
        /\ summary.teachers_used = 1 /\ Len(teachers) = 2
        /\ summary.rooms_used = 2
        /\ summary.groups_scheduled = 2

(* the summary of the empty Solution of a finished run *)
C23_WitnessEmpty == Terminated /\ solution = <<>> /\ get_solution_summary.total_assignments = 0

(***************************************************************************)
(* C29.  is_valid accepts a candidate exactly when that teacher, that room *)
(* and that group are each free at its (day, period), its course_type      *)
(* equals its room_type, no session of the course committed for that group *)
(* on that day is exactly 1 period away, fewer than 2 sessions of the      *)
(* course are committed for that group on that day, and that teacher has   *)
(* fewer than 6 sessions committed on that day.  Teachers, rooms and       *)
(* groups are the catalog's entries (ids), as the commits name them.       *)
(***************************************************************************)
HeldAt(n, timeslot) ==
    update_calls[n].day = timeslot.day /\ update_calls[n].period = timeslot.period

ClaimedAcceptable(c) ==
    /\ \A n \in DOMAIN update_calls :
          HeldAt(n, c.timeslot) =>
              /\ update_calls[n].teacher_id # c.teacher.id
              /\ update_calls[n].room_id # c.room.id
              /\ update_calls[n].group_id # c.group.id
    /\ c.course.course_type = c.room.room_type
    /\ \A n \in PairDayCommits(c.course.code, c.group.id, c.timeslot.day) :
          Abs(update_calls[n].period - c.timeslot.period) # 1
    /\ Cardinality(PairDayCommits(c.course.code, c.group.id, c.timeslot.day)) < 2
    /\ TeacherLoad(c.teacher.id, c.timeslot.day) < 6

C29_AcceptsExactlyWhenClaimed ==
    \A c \in Tried :
        is_valid(c.course, c.teacher, c.room, c.timeslot, c.group) <=> ClaimedAcceptable(c)

(* what holds: every candidate that is_valid accepts is acceptable as claimed *)
C29_AcceptedOnlyWhenClaimed ==
    \A c \in Tried :
        is_valid(c.course, c.teacher, c.room, c.timeslot, c.group) => ClaimedAcceptable(c)

(***************************************************************************)
(* C30.  A call of assign_session fails exactly when is_valid rejects      *)
(* every triple of a catalog teacher, a room of the course's type and a    *)
(* timeslot, in the state of the call: whichever teacher is recorded for   *)
(* the course and however the teachers are shuffled.                       *)
(***************************************************************************)
AllRejected(course, group) ==
    \A t \in Range(teachers), r \in Range(get_rooms_for_course(course, rooms)),
       ts \in Range(timeslots) : ~is_valid(course, t, r, ts, group)

C30_Step ==
    pc = "scheduling" =>
        (pc' = "failed" <=> AllRejected(shuffled_courses[ci], shuffled_groups[gi]))

C30_FailsIffAllRejected == [][C30_Step]_vars

(* a failed call for a course that has a recorded teacher, in a catalog of two
   teachers: both loops ran and found nothing *)
C30_Witness ==
    /\ Failed
    /\ Len(teachers) = 2
    /\ shuffled_courses[ci].code \in DOMAIN course_teacher_map
    /\ AllRejected(shuffled_courses[ci], shuffled_groups[gi])

(* a session that the second loop placed with another teacher than the
   recorded one *)
C30_WitnessSecondLoop ==
    \E n \in DOMAIN update_calls :
        /\ update_calls[n].course_code \in DOMAIN course_teacher_map
        /\ update_calls[n].teacher_id # course_teacher_map[update_calls[n].course_code]

(***************************************************************************)
(* C22.  Formatter round trip: the buckets of format_solution(solution),   *)
(* concatenated day by day and period by period, hold every Assignment as  *)
(* many times as the solution does (so they are a permutation of it), and  *)
(* an Assignment is only in the bucket of its own day and period.          *)
(***************************************************************************)
RECURSIVE ConcatBuckets(_, _)
ConcatBuckets(of_day, n) ==
    IF n = 0 THEN <<>>
    ELSE ConcatBuckets(of_day, n - 1) \o of_day.at[of_day.keys[n]]

RECURSIVE Flatten(_, _)
Flatten(formatted, n) ==
    IF n = 0 THEN <<>>
    ELSE LET of_day == formatted.at[formatted.keys[n]]
         IN  Flatten(formatted, n - 1) \o ConcatBuckets(of_day, Len(of_day.keys))

Occurrences(a, s) == Cardinality({ n \in DOMAIN s : s[n] = a })

Formatted == "formatted_solution" \in DOMAIN response

C22_FormatterRoundTrip ==
    Formatted =>
        LET formatted == response.formatted_solution
            flat == Flatten(formatted, Len(formatted.keys))
        IN  /\ Len(flat) = Len(solution)
            /\ \A a \in Range(solution) \cup Range(flat) :
                  Occurrences(a, flat) = Occurrences(a, solution)
            /\ \A day \in DOMAIN formatted.at :
                  \A period \in DOMAIN formatted.at[day].at :
                     \A a \in Range(formatted.at[day].at[period]) :
                        a.day = day /\ a.period = period
            /\ \A a \in Range(solution) :
                  Occurrences(a, formatted.at[a.day].at[a.period]) = Occurrences(a, solution)

(* a formatted list that holds one Assignment twice and whose periods are not
   in ascending order *)
C22_Witness ==
    /\ Formatted
    /\ Len(solution) = 3
    /\ solution[1] = solution[3]
    /\ solution[2].day = solution[1].day
    /\ solution[2].period < solution[1].period

(***************************************************************************)
(* C26.  Course codes stay unique: after any sequence of create, update    *)
(* and delete requests no two stored courses have the same code, and a     *)
(* create request whose code is the code of a stored course is answered    *)
(* with 400.                                                               *)
(***************************************************************************)
UniqueCodes ==
    \A i, j \in DOMAIN stored.courses :
        i # j => stored.courses[i].code # stored.courses[j].code

DuplicateCreateRejected ==
    \A keys \in SUBSET Range(required_fields), code \in CodeValues, name \in NameValues,
       sessions_per_week \in SessionValues, course_type \in TypeValues :
        LET data == Body(keys, 0, code, name, sessions_per_week, course_type)
        IN  /\ add_course(data)
            /\ "code" \in keys
            /\ \E i \in DOMAIN stored.courses : stored.courses[i].code = code
            => response'.status = 400 /\ stored' = stored

C26_CodesStayUnique == []UniqueCodes /\ [][DuplicateCreateRejected]_vars

(* what holds: the create requests alone keep the codes unique *)
C26_CreateKeepsCodesUnique ==
    [][UniqueCodes /\ AddCourse => UniqueCodes']_vars

(***************************************************************************)
(* C27.  A create-course request in which one of code, name,               *)
(* sessions_per_week and course_type is missing or empty (the empty        *)
(* string, or 0 sessions) is answered with 400 and leaves the stored       *)
(* courses as they were.                                                   *)
(***************************************************************************)
C27_Step ==
    \A keys \in SUBSET Range(required_fields), code \in CodeValues, name \in NameValues,
       sessions_per_week \in SessionValues, course_type \in TypeValues :
        /\ add_course(Body(keys, 0, code, name, sessions_per_week, course_type))
        /\ \/ keys # Range(required_fields)
           \/ code = "" \/ name = "" \/ sessions_per_week = 0 \/ course_type = ""
        => response'.status = 400 /\ stored' = stored

C27_IncompleteCreateRejected == [][C27_Step]_vars

(* a create request rejected for its sessions_per_week while a course is stored *)
C27_Witness ==
    /\ response.status = 400
    /\ response.message = "Sessions Per Week is required"
    /\ Len(stored.courses) = 1

(***************************************************************************)
(* C28.  Course requests made one after another: a created course is in   *)
(* every later listing under the id its creation returned until a delete   *)
(* of that id; an update of that id succeeds and changes only that course; *)
(* and after a delete of that id no listing holds it.  Step by step: a     *)
(* listing returns the stored courses; a stored id stays stored over every *)
(* request but a delete of it; an update of a stored id is answered 200    *)
(* and leaves every other stored course as it was; a delete of an id       *)
(* leaves no course of that id; and an id that was issued and is not       *)
(* stored does not come back.                                              *)
(***************************************************************************)
OthersUntouched(course_id) ==
    /\ Len(stored'.courses) = Len(stored.courses)
    /\ \A i \in DOMAIN stored.courses :
          stored.courses[i].id # course_id => stored'.courses[i] = stored.courses[i]

C28_Step ==
    /\ get_courses => response'.courses = stored.courses
    /\ \A course_id \in StoredIds :
          course_id \in StoredIds' \/ delete_course(course_id)
    /\ \A course_id \in StoredIds, keys \in SUBSET {"id", "code", "sessions_per_week"},
          id \in IdValues, code \in CodeValues, sessions_per_week \in SessionValues :
          update_course(course_id, Body(keys, id, code, "", sessions_per_week, ""))
              => response'.status = 200 /\ OthersUntouched(course_id)
    /\ \A course_id \in IdValues :
          delete_course(course_id) => course_id \notin StoredIds'
    /\ \A course_id \in 1..issued :
          course_id \notin StoredIds => course_id \notin StoredIds'

C28_CourseLifecycle == [][C28_Step]_vars

(* what holds: the same, for update requests whose body carries no id *)
C28_StepWithoutIdInBody ==
    (\E course_id \in IdValues, keys \in SUBSET {"id", "code", "sessions_per_week"},
        id \in IdValues, code \in CodeValues, sessions_per_week \in SessionValues :
        /\ "id" \in keys
        /\ update_course(course_id, Body(keys, id, code, "", sessions_per_week, "")))
    \/ C28_Step

C28_LifecycleWithoutIdInBody == [][C28_StepWithoutIdInBody]_vars

(***************************************************************************)
(* C25.  A generation request made while the stored course collection is   *)
(* empty, or the teacher, room, timeslot or group collection, is answered  *)
(* with 400: no solver is constructed or run, and the stored timetable     *)
(* stays as it was.                                                        *)
(***************************************************************************)
SomeCollectionEmpty ==
    \/ Len(stored.courses) = 0
    \/ Len(stored.teachers) = 0
    \/ Len(stored.rooms) = 0
    \/ Len(stored.timeslots) = 0
    \/ Len(stored.groups) = 0

C25_Step ==
    generate_request /\ SomeCollectionEmpty =>
        /\ response'.status = 400
        /\ timetable' = timetable
        /\ handler' = "idle"
        /\ pc' = "none"
        /\ UNCHANGED <<catalog, solution, tracker, update_calls>>

C25_EmptyCollectionRejected == [][C25_Step]_vars

(* a request rejected for the missing courses while a timetable of an earlier
   generation is stored *)
C25_Witness ==
    /\ response.status = 400
    /\ response.message = "No courses found. Please add at least one course first."
    /\ Len(stored.courses) = 0
    /\ Len(timetable) = 2
    /\ handler = "idle"

(* the same for the missing groups *)
C25_WitnessGroups ==
    /\ response.status = 400
    /\ response.message = "No student groups found. Please add at least one group first."
    /\ Len(stored.groups) = 0
    /\ Len(timetable) >= 1

(***************************************************************************)
(* C24.  On the sample catalog (5 days of 8 periods) solve never fails,    *)
(* whatever the orderings of courses, groups and teachers, and the         *)
(* Solution it returns has 39 Assignments: 13 for each of the 3 groups.    *)
(***************************************************************************)
IsSample ==
    /\ courses = SampleCourses
    /\ teachers = SampleTeachers
    /\ rooms = SampleRooms
    /\ timeslots = SampleTimeslots(Len(SampleDayNames))
    /\ groups = SampleGroups

C24_SampleAlwaysSucceeds ==
    IsSample =>
        /\ ~Failed
        /\ Succeeded => Len(returned) = SampleSessions

(* a returned Solution of the sample catalog that uses all four teachers *)
C24_Witness ==
    /\ IsSample
    /\ Succeeded
    /\ Len(returned) = SampleSessions
    /\ \A i \in DOMAIN teachers : Holds(teachers[i])

(* a returned Solution of the sample catalog with a session that the second
   loop placed with another teacher than the recorded one *)
C24_WitnessSecondLoop ==
    /\ IsSample
    /\ Succeeded
    /\ \E n \in DOMAIN update_calls :
          update_calls[n].teacher_id # course_teacher_map[update_calls[n].course_code]

(***************************************************************************)
(* C31.  First fit in stable order: whenever a session is committed, the   *)
(* committed (room, timeslot) is, for the committed teacher, the first     *)
(* pair that is_valid accepts in the state of the call, the rooms of the   *)
(* course's type taken in catalog order and, for each room, the timeslots  *)
(* in catalog order: is_valid rejects every earlier pair for that teacher. *)
(***************************************************************************)
Commits == Len(update_calls') = Len(update_calls) + 1

LastCommit == update_calls'[Len(update_calls')]

C31_Step ==
    pc = "scheduling" /\ Commits =>
        LET course == shuffled_courses[ci]
            group == shuffled_groups[gi]
            typed == SelectSeq(rooms, LAMBDA room : room.room_type = course.course_type)
        IN  \E t \in DOMAIN teachers, i \in DOMAIN typed, j \in DOMAIN timeslots :
              /\ teachers[t].id = LastCommit.teacher_id
              /\ typed[i].id = LastCommit.room_id
              /\ timeslots[j].day = LastCommit.day
              /\ timeslots[j].period = LastCommit.period
              /\ is_valid(course, teachers[t], typed[i], timeslots[j], group)
              /\ \A i2 \in DOMAIN typed, j2 \in DOMAIN timeslots :
                    i2 < i \/ (i2 = i /\ j2 < j) =>
                        ~is_valid(course, teachers[t], typed[i2], timeslots[j2], group)

C31_FirstFitInCatalogOrder == [][C31_Step]_vars

(* a session committed to the second of two rooms of one type, at the second
   timeslot: the teacher had no acceptable timeslot in the first room, and
   none before that one in the second *)
C31_Witness ==
    /\ Len(rooms) = 2
    /\ rooms[1].room_type = rooms[2].room_type
    /\ Len(timeslots) = 2
    /\ \E n \in DOMAIN update_calls :
          /\ update_calls[n].room_id = rooms[2].id
          /\ update_calls[n].day = timeslots[2].day
          /\ update_calls[n].period = timeslots[2].period

(***************************************************************************)
(* C32.  Fail-fast: a call of assign_session that commits nothing puts the *)
(* driver in FAILED at once, and the driver stays there: from then on no   *)
(* session of a remaining course or group is attempted (the loop positions *)
(* stay) and no Assignment is committed (the Solution, the tracker and the *)
(* list of commits stay).                                                  *)
(***************************************************************************)
RunFrozen == UNCHANGED <<solution, tracker, update_calls, ci, gi, session>>

C32_Step ==
    /\ pc = "scheduling" /\ ~Commits => pc' = "failed" /\ RunFrozen
    /\ Failed => Failed' /\ RunFrozen

C32_FailFast == [][C32_Step]_vars

(* a run that failed after a commit, at the first of two courses and the first
   of two groups: the sessions of the other course and group were never tried *)
C32_Witness ==
    /\ Failed
    /\ Len(update_calls) >= 1
    /\ ci = 1 /\ Len(shuffled_courses) = 2
    /\ gi = 1 /\ Len(shuffled_groups) = 2

(***************************************************************************)
(* C33.  No rollback: on every step from SCHEDULING the Solution keeps     *)
(* all its Assignments, unchanged and at their places, and at most one new *)
(* Assignment is added, at its end, for the commit of that step; every     *)
(* busy-set keeps its entries and every session counter its count or more. *)
(***************************************************************************)
Prefix(a, b) == Len(a) <= Len(b) /\ SubSeq(b, 1, Len(a)) = a

BusyKept(before, after) ==
    \A k \in DOMAIN before : k \in DOMAIN after /\ Prefix(before[k], after[k])

CountersKept(before, after) ==
    \A k \in DOMAIN before : k \in DOMAIN after /\ after[k] >= before[k]

C33_Step ==
    pc = "scheduling" =>
        /\ Prefix(solution, solution')
        /\ Len(solution') <= Len(solution) + 1
        /\ Prefix(update_calls, update_calls')
        /\ Len(solution') - Len(solution) = Len(update_calls') - Len(update_calls)
        /\ Commits =>
              /\ solution'[Len(solution')].course_code = LastCommit.course_code
              /\ solution'[Len(solution')].day = LastCommit.day
              /\ solution'[Len(solution')].period = LastCommit.period
        /\ BusyKept(teacher_assignments, teacher_assignments')
        /\ BusyKept(room_assignments, room_assignments')
        /\ BusyKept(group_assignments, group_assignments')
        /\ CountersKept(course_day_sessions, course_day_sessions')

C34_Step ==
    pc = "scheduling" =>
        IF pc' = "failed"
        THEN UNCHANGED <<solution, teacher_assignments, room_assignments,
                         group_assignments, course_day_sessions, course_teacher_map>>
        ELSE /\ Len(solution') = Len(solution) + 1
             /\ SubSeq(solution', 1, Len(solution)) = solution
             /\ solution'[Len(solution')].course_code = shuffled_courses[ci].code
             /\ solution'[Len(solution')].group_name = shuffled_groups[gi].name
             /\ LastCommit.course_code = shuffled_courses[ci].code
             /\ LastCommit.group_id = shuffled_groups[gi].id

C34_OnlyPlacementChangesState == [][C34_Step]_vars

(* a call that failed for a course without a recorded teacher, with teachers
   to try, after sessions of another course were committed *)
C34_Witness ==
    /\ Failed
    /\ Len(teachers) >= 1
    /\ Len(solution) >= 1
    /\ shuffled_courses[ci].code \notin DOMAIN course_teacher_map
    /\ DOMAIN course_teacher_map # {}

(***************************************************************************)
(* C35.  The Tracker mirrors the Solution in every reachable state: the    *)
(* Solution is the list of the commits; the busy-set of a teacher, a room  *)
(* or a group holds exactly the (day, period) slots of the commits that    *)
(* use it, and holds nothing for another key; the counter of a (course,    *)
(* group, day) is the number of commits of that course for that group on   *)
(* that day; and every commit adds its slot to the three busy-sets and 1   *)
(* to the counter of its course, group and day.                            *)
(***************************************************************************)
SlotsOf(calls) == [n \in DOMAIN calls |-> <<calls[n].day, calls[n].period>>]

TeacherSlots(id) == SlotsOf(SelectSeq(update_calls, LAMBDA c : c.teacher_id = id))
RoomSlots(id) == SlotsOf(SelectSeq(update_calls, LAMBDA c : c.room_id = id))
GroupSlots(id) == SlotsOf(SelectSeq(update_calls, LAMBDA c : c.group_id = id))

Ids(records) == { records[i].id : i \in DOMAIN records }

BusySetsMirror ==
    /\ DOMAIN teacher_assignments \subseteq Ids(teachers)
    /\ DOMAIN room_assignments \subseteq Ids(rooms)
    /\ DOMAIN group_assignments \subseteq Ids(groups)
    /\ \A id \in Ids(teachers) : Get(teacher_assignments, id, <<>>) = TeacherSlots(id)
    /\ \A id \in Ids(rooms) : Get(room_assignments, id, <<>>) = RoomSlots(id)
    /\ \A id \in Ids(groups) : Get(group_assignments, id, <<>>) = GroupSlots(id)

CounterKeys ==
    { <<courses[i].code, groups[j].id, timeslots[k].day>> :
        i \in DOMAIN courses, j \in DOMAIN groups, k \in DOMAIN timeslots }

CounterMirrors(key) ==
    Get(course_day_sessions, key, 0) = Cardinality(PairDayCommits(key[1], key[2], key[3]))

CountersMirror ==
    /\ DOMAIN course_day_sessions \subseteq CounterKeys
    /\ \A key \in CounterKeys : CounterMirrors(key)

CommitRecorded ==
    Commits =>
        LET slot == <<LastCommit.day, LastCommit.period>>
            key == <<LastCommit.course_code, LastCommit.group_id, LastCommit.day>>
        IN  /\ teacher_assignments'[LastCommit.teacher_id] =
                  Append(Get(teacher_assignments, LastCommit.teacher_id, <<>>), slot)
            /\ room_assignments'[LastCommit.room_id] =
                  Append(Get(room_assignments, LastCommit.room_id, <<>>), slot)
            /\ group_assignments'[LastCommit.group_id] =
                  Append(Get(group_assignments, LastCommit.group_id, <<>>), slot)
            /\ Get(course_day_sessions', key, 0) = Get(course_day_sessions, key, 0) + 1

C35_TrackerMirrorsSolution ==
    /\ [](CommittedAs(solution) /\ BusySetsMirror /\ CountersMirror)
    /\ [][CommitRecorded]_vars

(* what holds: the busy-sets mirror the commits, and so do the counters of the
   courses that have a code *)
C35_MirrorsButBlankCodes ==
    /\ CommittedAs(solution)
    /\ BusySetsMirror
    /\ DOMAIN course_day_sessions \subseteq CounterKeys
    /\ \A key \in CounterKeys : Truthy(key[1]) => CounterMirrors(key)
    /\ \A key \in CounterKeys :
          ~Truthy(key[1]) => Get(course_day_sessions, key, 0) = 0

(***************************************************************************)
(* C36.  No lost update: when two create-course requests with distinct     *)
(* codes, served at the same time, have both been answered with success,   *)
(* the stored courses hold the course of each.                             *)
(***************************************************************************)
Succeeded200(r) == handler[r].at = "done" /\ response[r].status = 200

IsStored(course) == \E i \in DOMAIN stored.courses : stored.courses[i] = course

BothCreated ==
    /\ \A r \in Requests : Succeeded200(r)
    /\ handler[1].data["code"] # handler[2].data["code"]

C36_NoLostUpdate ==
    BothCreated => \A r \in Requests : IsStored(response[r].course)

(* what holds: the course of the request that saved last is stored, and the
   course of the other one as well when the last saver loaded after it saved *)
C36_LastSaverStored ==
    BothCreated =>
        \E r \in Requests :
            /\ stored.courses = handler[r].courses
            /\ IsStored(response[r].course)

====
